---- MODULE Spec2Model ----
(***************************************************************************)
(* DigitoolDB storage and indexing engine: Document, Index, IndexManager   *)
(* and Collection of src/src/common, driven either by one library caller   *)
(* holding one Collection handle or by the request threads of              *)
(* src/src/server/server.py, each of which constructs its own handle.      *)
(* Spec is the library caller, SpecServer the server, SpecScenario a       *)
(* caller that makes the calls of the collection tests in order,           *)
(* SpecOperators a caller that uses MongoDB-style operators in its queries *)
(* and updates, SpecFaults the library caller with index files removed or  *)
(* corrupted, failing writes of the collection file and a process that can *)
(* stop inside an operation, and SpecDatabase the server with its database *)
(* requests (create, drop, list) on the directories of the data directory. *)
(* SpecHandles is a library caller that holds two handles on the           *)
(* collection, SpecMixed a caller whose update documents carry several     *)
(* forms at once, SpecDotted a caller that indexes a field with a dot in   *)
(* its name and opens the collection again, and SpecCollections a caller   *)
(* that uses a second collection next to the first.                        *)
(***************************************************************************)
EXTENDS Integers, Sequences, FiniteSets, TLC

(***************************************************************************)
(* Bounds of the model.                                                    *)
(***************************************************************************)
MaxInserts == 2
MaxOps == 3

(***************************************************************************)
(* JSON values as Python holds them.  A value is a record with a type tag  *)
(* t, a number n and a string s; only the component of its type is used.   *)
(***************************************************************************)
Null == [t |-> "null", n |-> 0, s |-> ""]
Str(x) == [t |-> "str", n |-> 0, s |-> x]
Num(k) == [t |-> "num", n |-> k, s |-> ""]
Bool(b) == [t |-> "bool", n |-> IF b THEN 1 ELSE 0, s |-> ""]
\* The nested mapping {key: k} with one string key and one integer value.
Obj(key, k) == [t |-> "map", n |-> k, s |-> key]

IsNumeric(v) == v.t \in {"num", "bool"}

\* Python's ==: int and bool compare by number, everything else by type and value.
PyEq(x, y) ==
    IF IsNumeric(x) /\ IsNumeric(y) THEN x.n = y.n ELSE x = y

Digit(d) ==
    CASE d = 0 -> "0" [] d = 1 -> "1" [] d = 2 -> "2" [] d = 3 -> "3"
      [] d = 4 -> "4" [] d = 5 -> "5" [] d = 6 -> "6" [] d = 7 -> "7"
      [] d = 8 -> "8" [] d = 9 -> "9"

RECURSIVE IntToStr(_)
IntToStr(k) ==
    IF k < 0 THEN "-" \o IntToStr(0 - k)
    ELSE IF k < 10 THEN Digit(k)
    ELSE IntToStr(k \div 10) \o Digit(k % 10)

\* str(value) for the values of the model.
PyStr(v) ==
    CASE v.t = "null" -> "None"
      [] v.t = "str" -> v.s
      [] v.t = "num" -> IntToStr(v.n)
      [] v.t = "bool" -> IF v.n = 1 THEN "True" ELSE "False"
      [] v.t = "map" -> "{'" \o v.s \o "': " \o IntToStr(v.n) \o "}"

\* json.dumps(value, sort_keys=True) for a nested mapping.
JsonDumps(v) == "{\"" \o v.s \o "\": " \o IntToStr(v.n) \o "}"

\* `x in list` and list.remove(x): both compare with ==.
InList(x, l) == \E j \in 1..Len(l) : PyEq(l[j], x)

FirstPos(x, l) == CHOOSE j \in 1..Len(l) : PyEq(l[j], x) /\ \A m \in 1..(j - 1) : ~PyEq(l[m], x)

ListRemove(l, x) ==
    IF InList(x, l)
    THEN [j \in 1..(Len(l) - 1) |-> IF j < FirstPos(x, l) THEN l[j] ELSE l[j + 1]]
    ELSE l

\* dict.get(key): None when the key is absent.
DictGet(d, k) == IF k \in DOMAIN d THEN d[k] ELSE Null

\* d[k] = v on a dict.
DictSet(d, k, v) == [x \in DOMAIN d \cup {k} |-> IF x = k THEN v ELSE d[x]]

\* del d[k].
DictDel(d, k) == [x \in DOMAIN d \ {k} |-> d[x]]

EmptyDict == << >>

(***************************************************************************)
(* Index: a dict from the string key of a value to the list of ids.        *)
(***************************************************************************)
get_indexable_value(value) == IF value.t = "map" THEN JsonDumps(value) ELSE PyStr(value)

\* Python truthiness of an optional key: None and "" are both false.
KeyNone == [none |-> TRUE, k |-> ""]
KeySome(k) == [none |-> FALSE, k |-> k]
OptKey(value) == IF value = Null THEN KeyNone ELSE KeySome(get_indexable_value(value))
Truthy(key) == ~key.none /\ key.k # ""

Index_find_doc_ids(index, value) ==
    LET field_value == get_indexable_value(value)
    IN IF field_value \in DOMAIN index THEN index[field_value] ELSE << >>

\* The result of a mutating Index call: the index in memory afterwards and
\* whether _save_index ran.
Index_add(index, doc_id, value) ==
    IF value = Null THEN [index |-> index, saved |-> FALSE]
    ELSE LET key == get_indexable_value(value)
             i1 == IF key \in DOMAIN index THEN index ELSE DictSet(index, key, << >>)
         IN IF ~InList(doc_id, i1[key])
            THEN [index |-> DictSet(i1, key, Append(i1[key], doc_id)), saved |-> TRUE]
            ELSE [index |-> i1, saved |-> FALSE]

\* Index.remove without its clean-up of a bucket left empty.
Index_remove_keeps_bucket(index, doc_id, value) ==
    LET key == OptKey(value)
    IN IF Truthy(key) /\ key.k \in DOMAIN index
       THEN [index |-> DictSet(index, key.k, ListRemove(index[key.k], doc_id)),
             saved |-> TRUE]
       ELSE [index |-> index, saved |-> FALSE]

Index_remove(index, doc_id, value) ==
    LET key == OptKey(value)
    IN IF Truthy(key) /\ key.k \in DOMAIN index
       THEN LET l == ListRemove(index[key.k], doc_id)
            IN [index |-> IF l = << >> THEN DictDel(index, key.k) ELSE DictSet(index, key.k, l),
                saved |-> TRUE]
       ELSE [index |-> index, saved |-> FALSE]

\* Index.update without its second half: the id leaves the bucket of the old
\* key and enters none.
Index_update_no_new_key(index, doc_id, old_value, new_value) ==
    LET old_key == OptKey(old_value)
    IN [index |-> IF Truthy(old_key) /\ old_key.k \in DOMAIN index
                  THEN LET l == ListRemove(index[old_key.k], doc_id)
                       IN IF l = << >> THEN DictDel(index, old_key.k)
                          ELSE DictSet(index, old_key.k, l)
                  ELSE index,
        saved |-> TRUE]

Index_update(index, doc_id, old_value, new_value) ==
    LET old_key == OptKey(old_value)
        new_key == OptKey(new_value)
        i1 == IF Truthy(old_key) /\ old_key.k \in DOMAIN index
              THEN LET l == ListRemove(index[old_key.k], doc_id)
                   IN IF l = << >> THEN DictDel(index, old_key.k)
                      ELSE DictSet(index, old_key.k, l)
              ELSE index
        i2 == IF Truthy(new_key)
              THEN LET i3 == IF new_key.k \in DOMAIN i1 THEN i1
                             ELSE DictSet(i1, new_key.k, << >>)
                   IN IF ~InList(doc_id, i3[new_key.k])
                      THEN DictSet(i3, new_key.k, Append(i3[new_key.k], doc_id))
                      ELSE i3
              ELSE i1
    IN [index |-> i2, saved |-> TRUE]

\* _build_index over a parsed document list: no test for ids already present.
RECURSIVE BuildFrom(_, _, _)
BuildFrom(documents, field, index) ==
    IF documents = << >> THEN index
    ELSE LET document == Head(documents)
             next == IF field \in DOMAIN document
                     THEN LET fv == get_indexable_value(document[field])
                              doc_id == DictGet(document, "_id")
                              i1 == IF fv \in DOMAIN index THEN index
                                    ELSE DictSet(index, fv, << >>)
                          IN DictSet(i1, fv, Append(i1[fv], doc_id))
                     ELSE index
         IN BuildFrom(Tail(documents), field, next)

Index_build_index(documents, field) == BuildFrom(documents, field, EmptyDict)

(***************************************************************************)
(* IndexManager: `indices` maps each indexed field to its Index.  A call   *)
(* returns the indices in memory afterwards and the fields whose index     *)
(* file was rewritten by _save_index.                                      *)
(***************************************************************************)
NoChange(index) == [index |-> index, saved |-> FALSE]

\* What the loop `for field in self.indices` leaves, r[f] being the result
\* of the call made on the index of field f.
Fanout(r) ==
    [indices |-> [f \in DOMAIN r |-> r[f].index],
     saved |-> {f \in DOMAIN r : r[f].saved}]

add_to_indices(indices, doc_id, document) ==
    Fanout([f \in DOMAIN indices |->
              IF f \in DOMAIN document
              THEN Index_add(indices[f], doc_id, document[f])
              ELSE NoChange(indices[f])])

remove_from_indices(indices, doc_id, document) ==
    Fanout([f \in DOMAIN indices |->
              IF f \in DOMAIN document
              THEN Index_remove(indices[f], doc_id, document[f])
              ELSE NoChange(indices[f])])

update_indices(indices, doc_id, old_doc, new_doc) ==
    Fanout([f \in DOMAIN indices |->
              LET old_value == DictGet(old_doc, f)
                  new_value == DictGet(new_doc, f)
              IN IF ~PyEq(old_value, new_value)
                 THEN Index_update(indices[f], doc_id, old_value, new_value)
                 ELSE NoChange(indices[f])])

find_by_index(indices, field, value) ==
    IF field \in DOMAIN indices THEN Index_find_doc_ids(indices[field], value) ELSE << >>

(***************************************************************************)
(* Document and the query/update logic of Collection.  A query is the list *)
(* of its clauses [k, v] in the order of the caller's dict.  An update     *)
(* document is [hasSet, set, hasInc, inc, plain]: its $set and $inc        *)
(* members when present, and its other keys.                               *)
(***************************************************************************)
Uuid(k) == Str("u" \o IntToStr(k))
Timestamp(c) == Str("T" \o IntToStr(c))

\* Document.__init__(data) with doc_id None: id is a fresh uuid; c is the
\* clock before the call.  Every datetime.now() reads a later time than the
\* one before it.
Document_init(data, uuid, c) ==
    LET d1 == IF "_id" \notin DOMAIN data THEN DictSet(data, "_id", uuid) ELSE data
        d2 == IF "_created_at" \notin DOMAIN d1
              THEN DictSet(d1, "_created_at", Timestamp(c + 1)) ELSE d1
    IN [id |-> uuid, data |-> DictSet(d2, "_updated_at", Timestamp(c + 2))]

\* The query match comparing values by their str(), as the index keys are.
Match_by_str(doc, query) ==
    \A j \in 1..Len(query) :
        query[j].k \in DOMAIN doc /\ PyStr(doc[query[j].k]) = PyStr(query[j].v)

\* The query match looking only at which fields the document has.
Match_ignores_values(doc, query) ==
    \A j \in 1..Len(query) : query[j].k \in DOMAIN doc

Match(doc, query) ==
    \A j \in 1..Len(query) :
        query[j].k \in DOMAIN doc /\ PyEq(doc[query[j].k], query[j].v)

\* $set keeping of the document only the listed fields and _id.
SetAll_drops_others(doc, kv) ==
    [x \in DOMAIN kv \cup {"_id"} |-> IF x \in DOMAIN kv THEN kv[x] ELSE doc[x]]

SetAll(doc, kv) == [x \in DOMAIN doc \cup DOMAIN kv |-> IF x \in DOMAIN kv THEN kv[x] ELSE doc[x]]

IncAll(doc, kv) ==
    [x \in DOMAIN doc \cup DOMAIN kv |->
        IF x \in DOMAIN kv
        THEN IF x \in DOMAIN doc /\ IsNumeric(doc[x]) THEN Num(doc[x].n + kv[x].n) ELSE kv[x]
        ELSE doc[x]]

\* The `if match:` branch with $set adding to the numbers it finds.
ApplyUpdate_set_adds(doc, update, c) ==
    LET d1 == IF update.hasSet THEN IncAll(doc, update.set)
              ELSE IF update.hasInc THEN IncAll(doc, update.inc)
              ELSE DictSet(SetAll(doc, update.plain), "_id", doc["_id"])
    IN DictSet(d1, "_updated_at", Timestamp(c + 1))

\* The `if match:` branch applying every form the update document has: $set,
\* then $inc, then its other keys.
ApplyUpdate_every_form(doc, update, c) ==
    LET d1 == IF update.hasSet THEN SetAll(doc, update.set) ELSE doc
        d2 == IF update.hasInc THEN IncAll(d1, update.inc) ELSE d1
        d3 == DictSet(SetAll(d2, update.plain), "_id", doc["_id"])
    IN DictSet(d3, "_updated_at", Timestamp(c + 1))

\* The body of the `if match:` branch of Collection.update, up to _updated_at.
ApplyUpdate(doc, update, c) ==
    LET d1 == IF update.hasSet THEN SetAll(doc, update.set)
              ELSE IF update.hasInc THEN IncAll(doc, update.inc)
              ELSE DictSet(SetAll(doc, update.plain), "_id", doc["_id"])
    IN DictSet(d1, "_updated_at", Timestamp(c + 1))

\* The loop of Collection.update from document j on; c is the clock when the
\* loop starts, and each matched document reads it once.
RECURSIVE UpdateLoop(_, _, _, _, _, _, _, _)
UpdateLoop(documents, j, query, update, c, indices, saved, count) ==
    IF j > Len(documents)
    THEN [documents |-> documents, indices |-> indices, saved |-> saved, count |-> count]
    ELSE IF Match(documents[j], query)
         THEN LET old_doc == documents[j]
                  doc == ApplyUpdate(old_doc, update, c + count)
                  r == update_indices(indices, doc["_id"], old_doc, doc)
              IN UpdateLoop([documents EXCEPT ![j] = doc], j + 1, query, update, c,
                            r.indices, saved \cup r.saved, count + 1)
         ELSE UpdateLoop(documents, j + 1, query, update, c, indices, saved, count)

\* The loop of Collection.delete over deleted_docs.
RECURSIVE RemoveLoop(_, _, _)
RemoveLoop(deleted_docs, indices, saved) ==
    IF deleted_docs = << >> THEN [indices |-> indices, saved |-> saved]
    ELSE LET doc == Head(deleted_docs)
             r == remove_from_indices(indices, doc["_id"], doc)
         IN RemoveLoop(Tail(deleted_docs), r.indices, saved \cup r.saved)

\* The full scan of Collection.find (lines 201-216 with indexed_doc_ids None).
Scan(documents, query) == SelectSeq(documents, LAMBDA doc : Match(doc, query))

\* Collection.find on the documents read and the handle's indices.
Collection_find(documents, indices, query) ==
    IF query = << >> THEN documents
    ELSE LET hits == {j \in 1..Len(query) : query[j].k \in DOMAIN indices}
         IN IF hits = {} THEN Scan(documents, query)
            ELSE LET first == CHOOSE j \in hits : \A m \in hits : j <= m
                     ids == find_by_index(indices, query[first].k, query[first].v)
                 IN IF ids = << >> THEN << >>
                    ELSE SelectSeq(documents,
                           LAMBDA doc : InList(doc["_id"], ids) /\ Match(doc, query))

(***************************************************************************)
(* Inputs of the operations.                                               *)
(***************************************************************************)
Threads == {1, 2}
IndexFields == {"a"}
Vals == {Null, Str(""), Num(1), Str("1")}
CallerIds == {Null, Str("k")}

Merge(d, e) == [x \in DOMAIN d \cup DOMAIN e |-> IF x \in DOMAIN d THEN d[x] ELSE e[x]]
One(k, v) == [x \in {k} |-> v]
Clause(k, v) == <<[k |-> k, v |-> v]>>

\* Documents a caller inserts: field a absent or set (to one of Vals or to
\* true), and possibly one reserved field supplied by the caller.
InsertDocs ==
    {Merge(u, r) :
        u \in {EmptyDict} \cup {One("a", v) : v \in Vals \cup {Bool(TRUE)}},
        r \in {EmptyDict, One("_created_at", Null)} \cup {One("_id", v) : v \in CallerIds}}

Queries ==
    {<< >>} \cup {Clause("a", v) : v \in Vals}
            \cup {Clause("_id", v) : v \in {Str("k"), Uuid(1)}}

SetUpdate(kv) == [hasSet |-> TRUE, set |-> kv, hasInc |-> FALSE, inc |-> EmptyDict, plain |-> EmptyDict]
IncUpdate(kv) == [hasSet |-> FALSE, set |-> EmptyDict, hasInc |-> TRUE, inc |-> kv, plain |-> EmptyDict]
Replacement(kv) == [hasSet |-> FALSE, set |-> EmptyDict, hasInc |-> FALSE, inc |-> EmptyDict, plain |-> kv]

UpdateBodies ==
    {One("a", v) : v \in Vals} \cup {One("_id", Str("k")), One("_created_at", Null)}

Updates ==
    {SetUpdate(kv) : kv \in UpdateBodies}
      \cup {Replacement(kv) : kv \in {One("a", Str("1")), One("b", Num(1)),
                                      One("_id", Str("k")), One("_created_at", Null)}}
      \cup {IncUpdate(One("a", Num(1))), IncUpdate(One("_id", Num(1)))}

\* The requests sent to the server draw from fewer values: what the threads
\* interleave is the file accesses, whatever the values.
ServerVals == {Null, Num(1)}

ServerDocs == {EmptyDict} \cup {One("a", v) : v \in ServerVals}

ServerQueries == {<< >>} \cup {Clause("a", v) : v \in ServerVals}

ServerUpdates == {SetUpdate(One("a", v)) : v \in ServerVals} \cup {Replacement(One("a", Num(1)))}

\* The database that holds the collection, and the database names requests
\* carry: the first two match ^[a-zA-Z0-9_]+$, the third does not.
DbName == "db"
DatabaseNames == {"db", "nodb", "a-b"}
CollectionName == "c"

\* The calls of the collection tests (two people, a query by age, a $set of
\* the age, a delete by name) with an index on age created before, between
\* or after the inserts: p inserts come first.
Names == {"Alice", "Bob"}
Ages == {25, 26, 30}

Person(name, age) == [x \in {"name", "age"} |-> IF x = "name" THEN Str(name) ELSE Num(age)]

Reference(n1, n2, a1, a2, a3, p) ==
    LET inserts == <<[op |-> "insert", document |-> Person(n1, a1)],
                     [op |-> "insert", document |-> Person(n2, a2)]>>
        index == <<[op |-> "create_index", field |-> "age"]>>
        rest == <<[op |-> "find", query |-> Clause("age", Num(a2))],
                  [op |-> "update", query |-> Clause("name", Str(n2)),
                   update |-> SetUpdate(One("age", Num(a3)))],
                  [op |-> "find", query |-> Clause("age", Num(a2))],
                  [op |-> "find", query |-> Clause("age", Num(a3))],
                  [op |-> "delete", query |-> Clause("name", Str(n1))],
                  [op |-> "list_indices"]>>
    IN SubSeq(inserts, 1, p) \o index \o SubSeq(inserts, p + 1, Len(inserts)) \o rest

Scripts ==
    {Reference(n1, n2, a1, a2, a3, p) :
        n1 \in Names, n2 \in Names, a1 \in Ages, a2 \in Ages, a3 \in Ages, p \in 0..2}

\* The calls of a caller that uses MongoDB-style operators: two documents
\* with a number in a, an index on a created before, between or after the
\* inserts, then a find, an update and a delete whose query is the
\* comparison {a: {op: v}}, an update by equality whose update document is
\* {unknown: {a: 1}}, a delete by equality and list_indices.
ComparisonOperators == {"$lt", "$lte", "$gt", "$gte"}
OtherOperators == {"$unset", "$push"}
Operands == {1, 2, 3}

Operated(x, y, op, v, unknown, p) ==
    LET inserts == <<[op |-> "insert", document |-> One("a", Num(x))],
                     [op |-> "insert", document |-> One("a", Num(y))]>>
        index == <<[op |-> "create_index", field |-> "a"]>>
        rest == <<[op |-> "find", query |-> Clause("a", Obj(op, v))],
                  [op |-> "update", query |-> Clause("a", Obj(op, v)),
                   update |-> SetUpdate(One("b", Num(1)))],
                  [op |-> "update", query |-> Clause("a", Num(x)),
                   update |-> Replacement(One(unknown, Obj("a", 1)))],
                  [op |-> "delete", query |-> Clause("a", Obj(op, v))],
                  [op |-> "delete", query |-> Clause("a", Num(x))],
                  [op |-> "list_indices"]>>
    IN SubSeq(inserts, 1, p) \o index \o SubSeq(inserts, p + 1, Len(inserts)) \o rest

OperatorScripts ==
    {Operated(x, y, op, v, unknown, p) :
        x \in Operands, y \in Operands, op \in ComparisonOperators, v \in Operands,
        unknown \in OtherOperators, p \in 0..2}

\* The calls of a caller whose update document has more than one form: two
\* documents with numbers in a and n, an index on n created before, between
\* or after the inserts, then an update of the first document with $set and
\* $inc, $set and $inc and a plain key, or $inc and a plain key, a find, a
\* delete and list_indices.
Mixed(set, inc, plain) ==
    [hasSet |-> set # EmptyDict, set |-> set, hasInc |-> inc # EmptyDict, inc |-> inc,
     plain |-> plain]

MixedUpdates ==
    {Mixed(One("a", Num(9)), One("n", Num(1)), EmptyDict),
     Mixed(One("s", Num(1)), One("n", Num(1)), One("b", Num(7))),
     Mixed(One("n", Num(7)), One("n", Num(1)), EmptyDict),
     Mixed(EmptyDict, One("n", Num(1)), One("b", Num(7)))}

Counted(x, n) == Merge(One("a", Num(x)), One("n", n))

MixedCalls(x, y, n, update, p) ==
    LET inserts == <<[op |-> "insert", document |-> Counted(x, n)],
                     [op |-> "insert", document |-> Counted(y, Num(0))]>>
        index == <<[op |-> "create_index", field |-> "n"]>>
        rest == <<[op |-> "update", query |-> Clause("a", Num(x)), update |-> update],
                  [op |-> "find", query |-> Clause("n", n)],
                  [op |-> "delete", query |-> Clause("a", Num(y))],
                  [op |-> "list_indices"]>>
    IN SubSeq(inserts, 1, p) \o index \o SubSeq(inserts, p + 1, Len(inserts)) \o rest

MixedScripts ==
    {MixedCalls(x, y, n, update, p) :
        x \in {1, 2}, y \in {1, 2}, n \in {Num(5), Str("5"), Null},
        update \in MixedUpdates, p \in 0..2}

\* The calls of a caller whose documents have a field named a.b (a key with
\* a dot in it, not a path) next to a field b: two documents, an index on
\* one of the two fields created before, between or after the inserts, then
\* a find, a $set of the indexed field, a find, a delete and list_indices.
DottedFields == {"a.b", "b"}

Dotted(x, y) == Merge(One("a.b", Num(x)), One("b", Num(y)))

DottedCalls(field, x, y, p) ==
    LET inserts == <<[op |-> "insert", document |-> Dotted(x, y)],
                     [op |-> "insert", document |-> Dotted(y, x)]>>
        index == <<[op |-> "create_index", field |-> field]>>
        rest == <<[op |-> "find", query |-> Clause(field, Num(x))],
                  [op |-> "update", query |-> Clause("b", Num(y)),
                   update |-> SetUpdate(One(field, Num(3)))],
                  [op |-> "find", query |-> Clause("b", Num(3))],
                  [op |-> "delete", query |-> Clause(field, Num(3))],
                  [op |-> "list_indices"]>>
    IN SubSeq(inserts, 1, p) \o index \o SubSeq(inserts, p + 1, Len(inserts)) \o rest

DottedScripts ==
    {DottedCalls(field, x, y, p) :
        field \in DottedFields, x \in {1, 2}, y \in {1, 2}, p \in 0..2}

(***************************************************************************)
(* State.                                                                  *)
(***************************************************************************)
VARIABLES
    server,       \* TRUE: request threads of the server; FALSE: one library caller
    collFile,     \* the document list the collection file holds
    collPartial,  \* the collection file is open for writing and not yet complete
    idxFile,      \* the index files that exist: field -> index
    pc,           \* per thread: where it is in its operation
    indices,      \* per thread: IndexManager.indices of its Collection handle
    local,        \* per thread: the local variables of the running operation
    ret,          \* per thread: the last completed operation and what it returned
    clock,        \* number of datetime.now() calls so far
    nextId,       \* number of uuids drawn so far
    nops,         \* operations started
    lastFull,     \* history: the last document list written completely
    returned,     \* history: the ids the inserts returned
    idxCorrupt,   \* the fields whose index file does not parse
    script,       \* the calls a scripted caller makes, and the next one
    dirs,         \* the database directories that exist in the data directory
    db_cache,     \* the database names the server has cached a Database for
    collExists,   \* the collection file exists
    dropped,      \* history: the ids stored in a database when it was dropped
    other         \* a second collection: its database, name, documents, index files

vars == <<server, collFile, collPartial, idxFile, pc, indices, local, ret, clock,
          nextId, nops, lastFull, returned, idxCorrupt, script, dirs, db_cache,
          collExists, dropped, other>>

NoOp == [op |-> "none"]

\* No second collection.
NoOther == [db |-> "", name |-> << >>, documents |-> << >>, idxFile |-> EmptyDict]

\* A caller that makes a fixed list of calls, pos being the next one; a free
\* caller has no list and draws every call from the input sets.
Free == [calls |-> << >>, pos |-> 0]
Scripted == script # Free
NextCall == script.calls[script.pos]

\* One caller with one Collection handle on a new, empty collection; the
\* second thread never runs.
Init ==
    /\ collFile = << >>
    /\ collPartial = FALSE
    /\ idxFile = EmptyDict
    /\ indices = [t \in Threads |-> EmptyDict]
    /\ local = [t \in Threads |-> NoOp]
    /\ ret = [t \in Threads |-> NoOp]
    /\ clock = 0
    /\ nextId = 0
    /\ nops = 0
    /\ lastFull = << >>
    /\ returned = {}
    /\ server = FALSE
    /\ pc = [t \in Threads |-> IF t = 1 THEN "idle" ELSE "off"]
    /\ idxCorrupt = {}
    /\ script = Free
    /\ dirs = {DbName}
    /\ db_cache = {}
    /\ collExists = TRUE
    /\ dropped = {}
    /\ other = NoOther

\* One caller that makes the calls of one script on a new, empty collection.
InitScenario ==
    /\ collFile = << >>
    /\ collPartial = FALSE
    /\ idxFile = EmptyDict
    /\ indices = [t \in Threads |-> EmptyDict]
    /\ local = [t \in Threads |-> NoOp]
    /\ ret = [t \in Threads |-> NoOp]
    /\ clock = 0
    /\ nextId = 0
    /\ nops = 0
    /\ lastFull = << >>
    /\ returned = {}
    /\ server = FALSE
    /\ pc = [t \in Threads |-> IF t = 1 THEN "idle" ELSE "off"]
    /\ idxCorrupt = {}
    /\ script \in {[calls |-> c, pos |-> 1] : c \in Scripts}
    /\ dirs = {DbName}
    /\ db_cache = {}
    /\ collExists = TRUE
    /\ dropped = {}
    /\ other = NoOther

\* One caller that makes the calls of one operator script on a new, empty
\* collection.
InitOperators ==
    /\ collFile = << >>
    /\ collPartial = FALSE
    /\ idxFile = EmptyDict
    /\ indices = [t \in Threads |-> EmptyDict]
    /\ local = [t \in Threads |-> NoOp]
    /\ ret = [t \in Threads |-> NoOp]
    /\ clock = 0
    /\ nextId = 0
    /\ nops = 0
    /\ lastFull = << >>
    /\ returned = {}
    /\ server = FALSE
    /\ pc = [t \in Threads |-> IF t = 1 THEN "idle" ELSE "off"]
    /\ idxCorrupt = {}
    /\ script \in {[calls |-> c, pos |-> 1] : c \in OperatorScripts}
    /\ dirs = {DbName}
    /\ db_cache = {}
    /\ collExists = TRUE
    /\ dropped = {}
    /\ other = NoOther

\* One caller that makes the calls of one script with a mixed update document
\* on a new, empty collection.
InitMixed ==
    /\ collFile = << >>
    /\ collPartial = FALSE
    /\ idxFile = EmptyDict
    /\ indices = [t \in Threads |-> EmptyDict]
    /\ local = [t \in Threads |-> NoOp]
    /\ ret = [t \in Threads |-> NoOp]
    /\ clock = 0
    /\ nextId = 0
    /\ nops = 0
    /\ lastFull = << >>
    /\ returned = {}
    /\ server = FALSE
    /\ pc = [t \in Threads |-> IF t = 1 THEN "idle" ELSE "off"]
    /\ idxCorrupt = {}
    /\ script \in {[calls |-> c, pos |-> 1] : c \in MixedScripts}
    /\ dirs = {DbName}
    /\ db_cache = {}
    /\ collExists = TRUE
    /\ dropped = {}
    /\ other = NoOther

\* One caller that makes the calls of one script with a dotted field name on
\* a new, empty collection.
InitDotted ==
    /\ collFile = << >>
    /\ collPartial = FALSE
    /\ idxFile = EmptyDict
    /\ indices = [t \in Threads |-> EmptyDict]
    /\ local = [t \in Threads |-> NoOp]
    /\ ret = [t \in Threads |-> NoOp]
    /\ clock = 0
    /\ nextId = 0
    /\ nops = 0
    /\ lastFull = << >>
    /\ returned = {}
    /\ server = FALSE
    /\ pc = [t \in Threads |-> IF t = 1 THEN "idle" ELSE "off"]
    /\ idxCorrupt = {}
    /\ script \in {[calls |-> c, pos |-> 1] : c \in DottedScripts}
    /\ dirs = {DbName}
    /\ db_cache = {}
    /\ collExists = TRUE
    /\ dropped = {}
    /\ other = NoOther

\* The server: every request thread constructs its handle per request.  The
\* data directory holds an empty collection, with or without an index on a
\* that a library caller created before the server was started.
InitServer ==
    /\ collFile = << >>
    /\ collPartial = FALSE
    /\ idxFile \in {EmptyDict, One("a", EmptyDict)}
    /\ indices = [t \in Threads |-> EmptyDict]
    /\ local = [t \in Threads |-> NoOp]
    /\ ret = [t \in Threads |-> NoOp]
    /\ clock = 0
    /\ nextId = 0
    /\ nops = 0
    /\ lastFull = << >>
    /\ returned = {}
    /\ server = TRUE
    /\ pc = [t \in Threads |-> "closed"]
    /\ idxCorrupt = {}
    /\ script = Free
    /\ dirs = {DbName}
    /\ db_cache = {}
    /\ collExists = TRUE
    /\ dropped = {}
    /\ other = NoOther

\* One caller with one Collection handle on a new, empty collection, who can
\* construct a second handle on it (Database.collection returns a new
\* Collection at every call) and then makes its calls through either.
InitHandles ==
    /\ collFile = << >>
    /\ collPartial = FALSE
    /\ idxFile = EmptyDict
    /\ indices = [t \in Threads |-> EmptyDict]
    /\ local = [t \in Threads |-> NoOp]
    /\ ret = [t \in Threads |-> NoOp]
    /\ clock = 0
    /\ nextId = 0
    /\ nops = 0
    /\ lastFull = << >>
    /\ returned = {}
    /\ server = FALSE
    /\ pc = [t \in Threads |-> IF t = 1 THEN "idle" ELSE "closed"]
    /\ idxCorrupt = {}
    /\ script = Free
    /\ dirs = {DbName}
    /\ db_cache = {}
    /\ collExists = TRUE
    /\ dropped = {}
    /\ other = NoOther

\* _read_collection: a file that does not parse reads as [].
read_collection == IF collPartial THEN << >> ELSE collFile

\* No other thread is inside an operation.
OthersAtRest(t) == \A u \in Threads \ {t} : pc[u] \in {"idle", "closed", "off"}

\* Thread t is between two calls and its caller makes a call op next.  The
\* handles of a library caller are used by one thread of control, one call
\* after the other; the request threads of the server run side by side.
CanStart(t, op) ==
    /\ pc[t] = "idle"
    /\ IF server THEN TRUE ELSE OthersAtRest(t)
    /\ IF Scripted THEN script.pos <= Len(script.calls) /\ NextCall.op = op
       ELSE nops < MaxOps

\* The call has been made.
Started ==
    /\ nops' = nops + 1
    /\ script' = IF Scripted THEN [script EXCEPT !.pos = @ + 1] ELSE script

\* Every thread has a handle or can construct one: the request threads of the
\* server, or the two handles of a library caller that holds two.
SeveralHandles == \A t \in Threads : pc[t] # "off"

\* There is a second collection.
HasOther == other # NoOther

\* With several handles or a second collection the calls draw from the
\* smaller input sets.
DocInputs ==
    IF Scripted THEN {NextCall.document}
    ELSE IF SeveralHandles \/ HasOther THEN ServerDocs ELSE InsertDocs
QueryInputs ==
    IF Scripted THEN {NextCall.query}
    ELSE IF SeveralHandles \/ HasOther THEN ServerQueries ELSE Queries
UpdateInputs ==
    IF Scripted THEN {NextCall.update}
    ELSE IF SeveralHandles \/ HasOther THEN ServerUpdates ELSE Updates
FieldInputs == IF Scripted THEN {NextCall.field} ELSE IndexFields

\* The operation of thread t returns r, its handle's indices being mem.  A
\* request thread of the server drops its handle with the request.
Return(t, r, mem) ==
    /\ ret' = [ret EXCEPT ![t] = r]
    /\ local' = [local EXCEPT ![t] = NoOp]
    /\ indices' = [indices EXCEPT ![t] = IF server THEN EmptyDict ELSE mem]
    /\ pc' = [pc EXCEPT ![t] = IF server THEN "closed" ELSE "idle"]

\* _save_index for the fields in saved: each index file is rewritten with the
\* index the handle holds (taken as one step per file).
SaveFiles(mem, saved) ==
    [f \in DOMAIN idxFile \cup saved |-> IF f \in saved THEN mem[f] ELSE idxFile[f]]

\* Index.__init__ -> _load_or_build_index on the files as they are: an index
\* file that parses is loaded; a missing or unparsable one is rebuilt from
\* the collection file and saved, unless the collection file does not parse
\* either, which leaves an empty index and no write.
load_or_build_index(field) ==
    IF field \in DOMAIN idxFile /\ field \notin idxCorrupt
    THEN [index |-> idxFile[field], saved |-> FALSE]
    ELSE IF collPartial THEN [index |-> EmptyDict, saved |-> FALSE]
    ELSE [index |-> Index_build_index(collFile, field), saved |-> TRUE]

(***************************************************************************)
(* File names.  The index of a field is kept in the file                   *)
(* <collection file>.<field>.idx, and a handle finds its indices by        *)
(* listing the directory and taking file names apart.  A name is the       *)
(* sequence of its characters.                                             *)
(***************************************************************************)
Chars(name) ==
    CASE name = "a" -> <<"a">>
      [] name = "b" -> <<"b">>
      [] name = "c" -> <<"c">>
      [] name = "d" -> <<"d">>
      [] name = "n" -> <<"n">>
      [] name = "age" -> <<"a", "g", "e">>
      [] name = "a.b" -> <<"a", ".", "b">>
      [] name = "." -> <<".">>
      [] name = "idx" -> <<"i", "d", "x">>
      [] name = "digitool" -> <<"d", "i", "g", "i", "t", "o", "o", "l">>

RECURSIVE Join(_)
Join(chars) == IF chars = << >> THEN "" ELSE Head(chars) \o Join(Tail(chars))

\* str.split(sep) for a separator of one character.
RECURSIVE SplitFrom(_, _, _)
SplitFrom(chars, sep, part) ==
    IF chars = << >> THEN <<part>>
    ELSE IF Head(chars) = sep THEN <<part>> \o SplitFrom(Tail(chars), sep, << >>)
    ELSE SplitFrom(Tail(chars), sep, Append(part, Head(chars)))

Split(chars, sep) == SplitFrom(chars, sep, << >>)

StartsWith(chars, prefix) ==
    Len(prefix) <= Len(chars) /\ SubSeq(chars, 1, Len(prefix)) = prefix

EndsWith(chars, suffix) ==
    Len(suffix) <= Len(chars)
      /\ SubSeq(chars, Len(chars) - Len(suffix) + 1, Len(chars)) = suffix

\* Collection.path without its directory: f"{name}.digitool".
collection_path == Chars(CollectionName) \o Chars(".") \o Chars("digitool")

\* Index.index_path: f"{collection_path}.{field}.idx".
index_path(field) ==
    collection_path \o Chars(".") \o Chars(field) \o Chars(".") \o Chars("idx")

\* The files of the second collection: f"{name}.digitool" and its index files.
other_path == other.name \o Chars(".") \o Chars("digitool")

other_index_path(field) ==
    other_path \o Chars(".") \o Chars(field) \o Chars(".") \o Chars("idx")

\* os.listdir of the database directory: the collection file and the index
\* files, and the files of the second collection when it is in the same
\* database.
listdir ==
    {collection_path} \cup {index_path(f) : f \in DOMAIN idxFile}
      \cup (IF other.db = DbName
            THEN {other_path} \cup {other_index_path(f) : f \in DOMAIN other.idxFile}
            ELSE {})

\* The names a file of a database directory can have: for every collection
\* name and every field a caller indexes, the collection file and the index
\* file.
FieldNames == {"a", "b", "n", "age", "a.b"}

FileNames ==
    LET paths == {name \o Chars(".") \o Chars("digitool") :
                    name \in {Chars(CollectionName), Chars("d"),
                              Chars("c") \o Chars(".") \o Chars("digitool")}}
    IN paths \cup {path \o Chars(".") \o Chars(field) \o Chars(".") \o Chars("idx") :
                     path \in paths, field \in FieldNames}

\* filename.split('.') of every file name, computed once.
split_parts == [filename \in FileNames |-> Split(filename, ".")]

\* The field _load_indices reads from a file name: parts[-2].
field_of(filename) ==
    LET parts == split_parts[filename] IN Join(parts[Len(parts) - 1])

\* The fields _load_indices constructs an Index for.
load_indices ==
    {field_of(filename) :
        filename \in {n \in listdir :
                        /\ StartsWith(n, collection_path)
                        /\ EndsWith(n, Chars(".") \o Chars("idx"))
                        /\ Len(split_parts[n]) >= 3}}

(***************************************************************************)
(* Actions.                                                                *)
(***************************************************************************)
\* In the server, _get_database (the cached Database, or Database.__init__
\* with its makedirs) and Database.collection.  Collection.__init__ ->
\* _ensure_collection_exists (makedirs, and a file holding [] when there is
\* none) -> IndexManager._load_indices: one Index per index file.
Open(t) ==
    /\ pc[t] \in (IF server THEN {"closed"} ELSE {"closed", "idle"})
    /\ IF server THEN TRUE ELSE OthersAtRest(t)
    /\ \E r \in {Fanout([f \in load_indices |-> load_or_build_index(f)])} :
          /\ indices' = [indices EXCEPT ![t] = r.indices]
          /\ idxFile' = SaveFiles(r.indices, r.saved)
          /\ idxCorrupt' = idxCorrupt \ r.saved
    /\ pc' = [pc EXCEPT ![t] = "idle"]
    /\ dirs' = dirs \cup {DbName}
    /\ db_cache' = IF server THEN db_cache \cup {DbName} ELSE db_cache
    /\ collExists' = TRUE
    /\ UNCHANGED <<script, server, collFile, collPartial, local, ret, clock, nextId,
                   nops, lastFull, returned, dropped, other>>

\* Collection.insert, lines 159-163: Document(document), read, append.
InsertRead(t) ==
    /\ CanStart(t, "insert")
    /\ collExists
    /\ nextId < MaxInserts
    /\ \E d \in DocInputs :
         LET document == Document_init(d, Uuid(nextId + 1), clock)
         IN local' = [local EXCEPT ![t] =
                        [op |-> "insert", input |-> d, id |-> document.id,
                         data |-> document.data,
                         documents |-> Append(read_collection, document.data)]]
    /\ clock' = clock + 2
    /\ nextId' = nextId + 1
    /\ Started
    /\ pc' = [pc EXCEPT ![t] = "ins_open"]
    /\ UNCHANGED <<idxCorrupt, server, collFile, collPartial, idxFile, indices, ret,
                   lastFull, returned>>
    /\ UNCHANGED <<dirs, db_cache, collExists, dropped, other>>

\* _write_collection, open(path, 'w'): the file is created in the database
\* directory when there is none, and truncated.
WriteOpen(t) ==
    /\ pc[t] \in {"ins_open", "upd_open", "del_open"}
    /\ DbName \in dirs
    /\ collFile' = << >>
    /\ collPartial' = TRUE
    /\ collExists' = TRUE
    /\ UNCHANGED <<dirs, db_cache, dropped, other>>
    /\ pc' = [pc EXCEPT ![t] = CASE pc[t] = "ins_open" -> "ins_dump"
                                 [] pc[t] = "upd_open" -> "upd_dump"
                                 [] pc[t] = "del_open" -> "del_dump"]
    /\ UNCHANGED <<script, idxCorrupt, server, idxFile, indices, local, ret, clock, nextId, nops,
                   lastFull, returned>>

\* _write_collection, json.dump and close, in insert.
InsertDump(t) ==
    /\ pc[t] = "ins_dump"
    /\ collFile' = local[t].documents
    /\ collPartial' = FALSE
    /\ lastFull' = local[t].documents
    /\ pc' = [pc EXCEPT ![t] = "ins_index"]
    /\ UNCHANGED <<script, idxCorrupt, server, idxFile, indices, local, ret, clock, nextId, nops, returned>>
    /\ UNCHANGED <<dirs, db_cache, collExists, dropped, other>>

\* Collection.insert, lines 167-169: add_to_indices and return.
InsertIndex(t) ==
    /\ pc[t] = "ins_index"
    /\ LET r == add_to_indices(indices[t], local[t].id, local[t].data)
       IN /\ r.saved = {} \/ DbName \in dirs
          /\ idxFile' = SaveFiles(r.indices, r.saved)
          /\ idxCorrupt' = idxCorrupt \ r.saved
          /\ Return(t, [op |-> "insert", input |-> local[t].input, id |-> local[t].id,
                        data |-> local[t].data], r.indices)
    /\ returned' = returned \cup {local[t].id}
    /\ UNCHANGED <<script, server, collFile, collPartial, clock, nextId, nops, lastFull>>
    /\ UNCHANGED <<dirs, db_cache, collExists, dropped, other>>

\* Collection.find: one read of the file, then the handle's own indices.
Find(t) ==
    /\ CanStart(t, "find")
    /\ collExists
    /\ \E query \in QueryInputs :
         Return(t, [op |-> "find", query |-> query,
                    result |-> Collection_find(read_collection, indices[t], query),
                    stable |-> lastFull,
                    pending |-> {local[u].documents :
                                   u \in {x \in Threads : pc[x] \in {"ins_dump", "upd_dump", "del_dump"}}}],
                indices[t])
    /\ Started
    /\ UNCHANGED <<idxCorrupt, server, collFile, collPartial, idxFile, clock, nextId, lastFull, returned>>
    /\ UNCHANGED <<dirs, db_cache, collExists, dropped, other>>

\* Collection.update, lines 229-265: read, then the loop over the documents
\* with the index updates (and index file writes) it makes.
UpdateRead(t) ==
    /\ CanStart(t, "update")
    /\ collExists
    /\ \E query \in QueryInputs, update \in UpdateInputs :
         LET r == UpdateLoop(read_collection, 1, query, update, clock, indices[t], {}, 0)
         IN /\ idxFile' = SaveFiles(r.indices, r.saved)
            /\ idxCorrupt' = idxCorrupt \ r.saved
            /\ clock' = clock + r.count
            /\ IF r.count > 0
               THEN /\ local' = [local EXCEPT ![t] =
                                   [op |-> "update", query |-> query, update |-> update,
                                    documents |-> r.documents, count |-> r.count,
                                    before |-> [indices |-> indices[t], idxFile |-> idxFile,
                                                idxCorrupt |-> idxCorrupt]]]
                    /\ indices' = [indices EXCEPT ![t] = r.indices]
                    /\ pc' = [pc EXCEPT ![t] = "upd_open"]
                    /\ ret' = ret
               ELSE Return(t, [op |-> "update", query |-> query, count |-> 0], r.indices)
    /\ Started
    /\ UNCHANGED <<server, collFile, collPartial, nextId, lastFull, returned>>
    /\ UNCHANGED <<dirs, db_cache, collExists, dropped, other>>

\* Collection.update, lines 267-270: the one write of the batch, and return.
UpdateDump(t) ==
    /\ pc[t] = "upd_dump"
    /\ collFile' = local[t].documents
    /\ collPartial' = FALSE
    /\ lastFull' = local[t].documents
    /\ Return(t, [op |-> "update", query |-> local[t].query, count |-> local[t].count],
              indices[t])
    /\ UNCHANGED <<script, idxCorrupt, server, idxFile, clock, nextId, nops, returned>>
    /\ UNCHANGED <<dirs, db_cache, collExists, dropped, other>>

\* Collection.delete without its test for an empty query.
DeleteRead_without_guard(t) ==
    /\ CanStart(t, "delete")
    /\ collExists
    /\ \E query \in QueryInputs :
         LET documents == read_collection
             new_documents == SelectSeq(documents, LAMBDA doc : ~Match(doc, query))
             deleted_docs == SelectSeq(documents, LAMBDA doc : Match(doc, query))
             deleted_count == Len(documents) - Len(new_documents)
         IN IF deleted_count > 0
            THEN /\ local' = [local EXCEPT ![t] =
                                [op |-> "delete", query |-> query,
                                 documents |-> new_documents,
                                 deleted_docs |-> deleted_docs, count |-> deleted_count]]
                 /\ pc' = [pc EXCEPT ![t] = "del_open"]
                 /\ UNCHANGED <<ret, indices>>
            ELSE Return(t, [op |-> "delete", query |-> query, count |-> 0], indices[t])
    /\ Started
    /\ UNCHANGED <<idxCorrupt, server, collFile, collPartial, idxFile, clock, nextId, lastFull, returned>>
    /\ UNCHANGED <<dirs, db_cache, collExists, dropped, other>>

\* Collection.delete, lines 282-306: read and split the documents.
DeleteRead(t) ==
    /\ CanStart(t, "delete")
    /\ collExists
    /\ \E query \in QueryInputs :
         LET documents == read_collection
             new_documents == SelectSeq(documents, LAMBDA doc : ~Match(doc, query))
             deleted_docs == SelectSeq(documents, LAMBDA doc : Match(doc, query))
             deleted_count == Len(documents) - Len(new_documents)
         IN IF query # << >> /\ deleted_count > 0
            THEN /\ local' = [local EXCEPT ![t] =
                                [op |-> "delete", query |-> query,
                                 documents |-> new_documents,
                                 deleted_docs |-> deleted_docs, count |-> deleted_count]]
                 /\ pc' = [pc EXCEPT ![t] = "del_open"]
                 /\ UNCHANGED <<ret, indices>>
            ELSE Return(t, [op |-> "delete", query |-> query, count |-> 0], indices[t])
    /\ Started
    /\ UNCHANGED <<idxCorrupt, server, collFile, collPartial, idxFile, clock, nextId, lastFull, returned>>
    /\ UNCHANGED <<dirs, db_cache, collExists, dropped, other>>

\* _write_collection, json.dump and close, in delete.
DeleteDump(t) ==
    /\ pc[t] = "del_dump"
    /\ collFile' = local[t].documents
    /\ collPartial' = FALSE
    /\ lastFull' = local[t].documents
    /\ pc' = [pc EXCEPT ![t] = "del_index"]
    /\ UNCHANGED <<script, idxCorrupt, server, idxFile, indices, local, ret, clock, nextId, nops, returned>>
    /\ UNCHANGED <<dirs, db_cache, collExists, dropped, other>>

\* Collection.delete, lines 309-313: remove_from_indices per deleted document.
DeleteIndex(t) ==
    /\ pc[t] = "del_index"
    /\ LET r == RemoveLoop(local[t].deleted_docs, indices[t], {})
       IN /\ r.saved = {} \/ DbName \in dirs
          /\ idxFile' = SaveFiles(r.indices, r.saved)
          /\ idxCorrupt' = idxCorrupt \ r.saved
          /\ Return(t, [op |-> "delete", query |-> local[t].query,
                        count |-> local[t].count], r.indices)
    /\ UNCHANGED <<script, server, collFile, collPartial, clock, nextId, nops, lastFull, returned>>
    /\ UNCHANGED <<dirs, db_cache, collExists, dropped, other>>

\* Collection.create_index -> ensure_index -> Index.__init__ when the handle
\* has no index on the field; True in every case.  The server's handler
\* constructs a Database (makedirs) and fails before it reaches the Collection.
CreateIndex(t) ==
    /\ CanStart(t, "create_index")
    /\ \E field \in FieldInputs :
         IF server
         THEN /\ Return(t, [op |-> "create_index", field |-> field, success |-> FALSE],
                        indices[t])
              /\ UNCHANGED <<idxFile, idxCorrupt>>
         ELSE LET fresh == field \notin DOMAIN indices[t]
                  r == load_or_build_index(field)
                  mem == IF fresh THEN DictSet(indices[t], field, r.index) ELSE indices[t]
                  saved == IF fresh /\ r.saved THEN {field} ELSE {}
              IN /\ idxFile' = SaveFiles(mem, saved)
                 /\ idxCorrupt' = idxCorrupt \ saved
                 /\ Return(t, [op |-> "create_index", field |-> field, success |-> TRUE],
                           mem)
    /\ Started
    /\ UNCHANGED <<server, collFile, collPartial, clock, nextId, lastFull, returned>>
    /\ dirs' = IF server THEN dirs \cup {DbName} ELSE dirs
    /\ UNCHANGED <<db_cache, collExists, dropped, other>>

\* Collection.drop_index -> IndexManager.drop_index.
DropIndex(t) ==
    /\ CanStart(t, "drop_index")
    /\ \E field \in FieldInputs :
         IF server
         THEN /\ Return(t, [op |-> "drop_index", field |-> field, success |-> FALSE],
                        indices[t])
              /\ UNCHANGED <<idxFile, idxCorrupt>>
         ELSE IF field \in DOMAIN indices[t]
         THEN /\ idxFile' = DictDel(idxFile, field)
              /\ idxCorrupt' = idxCorrupt \ {field}
              /\ Return(t, [op |-> "drop_index", field |-> field, success |-> TRUE],
                        DictDel(indices[t], field))
         ELSE /\ UNCHANGED <<idxFile, idxCorrupt>>
              /\ Return(t, [op |-> "drop_index", field |-> field, success |-> FALSE],
                        indices[t])
    /\ Started
    /\ UNCHANGED <<server, collFile, collPartial, clock, nextId, lastFull, returned>>
    /\ dirs' = IF server THEN dirs \cup {DbName} ELSE dirs
    /\ UNCHANGED <<db_cache, collExists, dropped, other>>

\* Collection.list_indices: the fields of the handle's IndexManager.
ListIndices(t) ==
    /\ CanStart(t, "list_indices")
    /\ IF server
       THEN Return(t, [op |-> "list_indices", success |-> FALSE], indices[t])
       ELSE Return(t, [op |-> "list_indices", result |-> DOMAIN indices[t]], indices[t])
    /\ Started
    /\ UNCHANGED <<idxCorrupt, server, collFile, collPartial, idxFile, clock, nextId,
                   lastFull, returned>>
    /\ dirs' = IF server THEN dirs \cup {DbName} ELSE dirs
    /\ UNCHANGED <<db_cache, collExists, dropped, other>>

Next ==
    \E t \in Threads :
         \/ Open(t)
         \/ InsertRead(t)
         \/ WriteOpen(t)
         \/ InsertDump(t)
         \/ InsertIndex(t)
         \/ Find(t)
         \/ UpdateRead(t)
         \/ UpdateDump(t)
         \/ DeleteRead(t)
         \/ DeleteDump(t)
         \/ DeleteIndex(t)
         \/ CreateIndex(t)
         \/ DropIndex(t)
         \/ ListIndices(t)

Spec == Init /\ [][Next]_vars

SpecServer == InitServer /\ [][Next]_vars

SpecHandles == InitHandles /\ [][Next]_vars

(***************************************************************************)
(* The database operations of the server.  They work on directories of the *)
(* data directory; the collection of the document requests is in DbName.   *)
(***************************************************************************)
\* Thread t receives a request that constructs no Collection.
CanRequest(t) == server /\ pc[t] = "closed" /\ nops < MaxOps /\ ~Scripted

\* _get_database(name): a name that is not cached gets a Database, whose
\* __init__ makes the directory when it is missing.
get_database(name) ==
    [db_cache |-> db_cache \cup {name},
     dirs |-> IF name \in db_cache THEN dirs ELSE dirs \cup {name}]

\* _create_database: success whenever _get_database returns.
CreateDatabase(t) ==
    /\ CanRequest(t)
    /\ \E name \in DatabaseNames :
         /\ db_cache' = get_database(name).db_cache
         /\ dirs' = get_database(name).dirs
         /\ Return(t, [op |-> "create_database", database |-> name, success |-> TRUE],
                   indices[t])
    /\ Started
    /\ UNCHANGED <<server, collFile, collPartial, idxFile, idxCorrupt, clock, nextId,
                   lastFull, returned, collExists, dropped, other>>

\* The ids a document or an index entry of the collection carries on disk.
StoredIds ==
    {collFile[j]["_id"] : j \in 1..Len(collFile)}
      \cup UNION {UNION {{idxFile[f][k][j] : j \in 1..Len(idxFile[f][k])} :
                            k \in DOMAIN idxFile[f]} : f \in DOMAIN idxFile}

\* A thread that holds the collection file open for writing keeps writing
\* into the unlinked file.
Unlinked(at) ==
    CASE at = "ins_dump" -> "ins_lost"
      [] at = "upd_dump" -> "upd_lost"
      [] at = "del_dump" -> "del_lost"
      [] OTHER -> at

\* _drop_database: fails when the directory does not exist; otherwise the
\* name leaves the cache and shutil.rmtree removes the directory with the
\* collection file and the index files in it (taken as one step).
DropDatabase(t) ==
    /\ CanRequest(t)
    /\ \E name \in DatabaseNames :
         IF name \notin dirs
         THEN /\ Return(t, [op |-> "drop_database", database |-> name, success |-> FALSE],
                        indices[t])
              /\ UNCHANGED <<dirs, db_cache, collFile, collPartial, collExists, idxFile,
                             idxCorrupt, lastFull, dropped>>
         ELSE /\ db_cache' = db_cache \ {name}
              /\ dirs' = dirs \ {name}
              /\ ret' = [ret EXCEPT ![t] =
                           [op |-> "drop_database", database |-> name, success |-> TRUE]]
              /\ UNCHANGED <<local, indices>>
              /\ IF name = DbName
                 THEN /\ collFile' = << >>
                      /\ collPartial' = FALSE
                      /\ collExists' = FALSE
                      /\ idxFile' = EmptyDict
                      /\ idxCorrupt' = {}
                      /\ lastFull' = << >>
                      /\ dropped' = dropped \cup StoredIds
                      /\ pc' = [u \in Threads |-> Unlinked(pc[u])]
                 ELSE UNCHANGED <<collFile, collPartial, collExists, idxFile, idxCorrupt,
                                  lastFull, dropped, pc>>
    /\ Started
    /\ UNCHANGED <<server, clock, nextId, returned, other>>

\* _list_databases -> list_databases(data_dir): the directories in it.
ListDatabases(t) ==
    /\ CanRequest(t)
    /\ Return(t, [op |-> "list_databases", success |-> TRUE, names |-> dirs], indices[t])
    /\ Started
    /\ UNCHANGED <<server, collFile, collPartial, idxFile, idxCorrupt, clock, nextId,
                   lastFull, returned, dirs, db_cache, collExists, dropped, other>>

\* _list_collections: _get_database, then Database.list_collections lists
\* the directory, which raises when there is none.
ListCollections(t) ==
    /\ CanRequest(t)
    /\ \E name \in DatabaseNames :
         /\ db_cache' = get_database(name).db_cache
         /\ dirs' = get_database(name).dirs
         /\ Return(t, IF name \in get_database(name).dirs
                      THEN [op |-> "list_collections", database |-> name, success |-> TRUE,
                            names |-> IF name = DbName /\ collExists
                                      THEN {CollectionName} ELSE {}]
                      ELSE [op |-> "list_collections", database |-> name, success |-> FALSE],
                   indices[t])
    /\ Started
    /\ UNCHANGED <<server, collFile, collPartial, idxFile, idxCorrupt, clock, nextId,
                   lastFull, returned, collExists, dropped, other>>

\* _read_collection raises FileNotFoundError: the collection file was removed
\* after the handle was constructed.  Collection.insert has constructed its
\* Document by then.
ReadFail(t) ==
    /\ ~collExists
    /\ \E op \in {"insert", "find", "update", "delete"} :
         /\ CanStart(t, op)
         /\ op = "insert" => nextId < MaxInserts
         /\ clock' = IF op = "insert" THEN clock + 2 ELSE clock
         /\ nextId' = IF op = "insert" THEN nextId + 1 ELSE nextId
         /\ Return(t, [op |-> op, failed |-> TRUE], indices[t])
    /\ Started
    /\ UNCHANGED <<server, collFile, collPartial, idxFile, idxCorrupt, lastFull, returned,
                   dirs, db_cache, collExists, dropped, other>>

\* open(path, 'w') on the collection file or on an index file raises
\* FileNotFoundError: the database directory was removed.
PathFail(t) ==
    /\ DbName \notin dirs
    /\ \/ pc[t] \in {"ins_open", "upd_open", "del_open"}
       \/ /\ pc[t] = "ins_index"
          /\ add_to_indices(indices[t], local[t].id, local[t].data).saved # {}
       \/ /\ pc[t] = "del_index"
          /\ RemoveLoop(local[t].deleted_docs, indices[t], {}).saved # {}
    /\ Return(t, [op |-> local[t].op, failed |-> TRUE], indices[t])
    /\ UNCHANGED <<script, server, collFile, collPartial, idxFile, idxCorrupt, clock,
                   nextId, nops, lastFull, returned, dirs, db_cache, collExists, dropped, other>>

\* json.dump and close on a collection file that drop_database unlinked: the
\* documents go to no file, and the operation goes on.
LostDump(t) ==
    /\ pc[t] \in {"ins_lost", "upd_lost", "del_lost"}
    /\ IF pc[t] = "upd_lost"
       THEN Return(t, [op |-> "update", query |-> local[t].query, count |-> local[t].count],
                   indices[t])
       ELSE /\ pc' = [pc EXCEPT ![t] = IF pc[t] = "ins_lost" THEN "ins_index" ELSE "del_index"]
            /\ UNCHANGED <<ret, local, indices>>
    /\ UNCHANGED <<script, server, collFile, collPartial, idxFile, idxCorrupt, clock,
                   nextId, nops, lastFull, returned, dirs, db_cache, collExists, dropped, other>>

\* The document stored before the server was started.
Stored == Document_init(One("a", Num(1)), Uuid(0), 0).data

\* The server, started on a data directory that holds the database DbName
\* with one document in its collection, with or without an index on a.
InitDatabase ==
    /\ collFile = <<Stored>>
    /\ collPartial = FALSE
    /\ idxFile \in {EmptyDict, One("a", Index_build_index(<<Stored>>, "a"))}
    /\ indices = [t \in Threads |-> EmptyDict]
    /\ local = [t \in Threads |-> NoOp]
    /\ ret = [t \in Threads |-> NoOp]
    /\ clock = 2
    /\ nextId = 0
    /\ nops = 0
    /\ lastFull = <<Stored>>
    /\ returned = {}
    /\ server = TRUE
    /\ pc = [t \in Threads |-> "closed"]
    /\ idxCorrupt = {}
    /\ script = Free
    /\ dirs = {DbName}
    /\ db_cache = {}
    /\ collExists = TRUE
    /\ dropped = {}
    /\ other = NoOther

NextDatabase ==
    \/ Next
    \/ \E t \in Threads :
         \/ CreateDatabase(t)
         \/ DropDatabase(t)
         \/ ListDatabases(t)
         \/ ListCollections(t)
         \/ ReadFail(t)
         \/ PathFail(t)
         \/ LostDump(t)

SpecDatabase == InitDatabase /\ [][NextDatabase]_vars

(***************************************************************************)
(* A second collection, in the database of the first or in another one.    *)
(* Its operations are made through a handle of its own (Database.collection *)
(* constructs one per call) and each is taken as one step: what is looked  *)
(* at is what they do to the first collection, whose operations run step   *)
(* by step as before.  The handle of the second collection loads the index *)
(* files of the second collection.                                         *)
(***************************************************************************)
\* Names a caller gives the second collection: d, and c.digitool, which the
\* core accepts as it accepts every str (validate_collection_name is called
\* by the client only).
OtherNames == {Chars("d"), Chars("c") \o Chars(".") \o Chars("digitool")}
OtherDatabases == {DbName, "nodb"}

\* An operation on the second collection is made.
CanOperateOther == HasOther /\ nops < MaxOps /\ ~Scripted

\* Collection.insert on the second collection.
OtherInsert ==
    /\ CanOperateOther
    /\ nextId < MaxInserts
    /\ \E d \in DocInputs :
         LET document == Document_init(d, Uuid(nextId + 1), clock)
             r == add_to_indices(other.idxFile, document.id, document.data)
         IN other' = [other EXCEPT !.documents = Append(@, document.data),
                                   !.idxFile = r.indices]
    /\ clock' = clock + 2
    /\ nextId' = nextId + 1
    /\ Started
    /\ UNCHANGED <<server, collFile, collPartial, idxFile, pc, indices, local, ret,
                   lastFull, returned, idxCorrupt, dirs, db_cache, collExists, dropped>>

\* Collection.update on the second collection.
OtherUpdate ==
    /\ CanOperateOther
    /\ \E query \in QueryInputs, update \in UpdateInputs :
         LET r == UpdateLoop(other.documents, 1, query, update, clock, other.idxFile, {}, 0)
         IN /\ other' = [other EXCEPT !.documents = r.documents, !.idxFile = r.indices]
            /\ clock' = clock + r.count
    /\ Started
    /\ UNCHANGED <<server, collFile, collPartial, idxFile, pc, indices, local, ret, nextId,
                   lastFull, returned, idxCorrupt, dirs, db_cache, collExists, dropped>>

\* Collection.delete on the second collection.
OtherDelete ==
    /\ CanOperateOther
    /\ \E query \in QueryInputs :
         LET new_documents == SelectSeq(other.documents, LAMBDA doc : ~Match(doc, query))
             deleted_docs == SelectSeq(other.documents, LAMBDA doc : Match(doc, query))
             r == RemoveLoop(deleted_docs, other.idxFile, {})
         IN IF query # << >> /\ deleted_docs # << >>
            THEN other' = [other EXCEPT !.documents = new_documents, !.idxFile = r.indices]
            ELSE other' = other
    /\ Started
    /\ UNCHANGED <<server, collFile, collPartial, idxFile, pc, indices, local, ret, clock,
                   nextId, lastFull, returned, idxCorrupt, dirs, db_cache, collExists,
                   dropped>>

\* Collection.create_index on the second collection.
OtherCreateIndex ==
    /\ CanOperateOther
    /\ \E field \in FieldInputs :
         other' = IF field \in DOMAIN other.idxFile THEN other
                  ELSE [other EXCEPT !.idxFile =
                          DictSet(@, field, Index_build_index(other.documents, field))]
    /\ Started
    /\ UNCHANGED <<server, collFile, collPartial, idxFile, pc, indices, local, ret, clock,
                   nextId, lastFull, returned, idxCorrupt, dirs, db_cache, collExists,
                   dropped>>

\* Collection.drop_index on the second collection.
OtherDropIndex ==
    /\ CanOperateOther
    /\ \E field \in FieldInputs :
         other' = IF field \in DOMAIN other.idxFile
                  THEN [other EXCEPT !.idxFile = DictDel(@, field)]
                  ELSE other
    /\ Started
    /\ UNCHANGED <<server, collFile, collPartial, idxFile, pc, indices, local, ret, clock,
                   nextId, lastFull, returned, idxCorrupt, dirs, db_cache, collExists,
                   dropped>>

\* One caller with one handle on a new, empty collection, and a second
\* collection, new and empty too, that is operated on at the same time.
InitCollections ==
    /\ collFile = << >>
    /\ collPartial = FALSE
    /\ idxFile = EmptyDict
    /\ indices = [t \in Threads |-> EmptyDict]
    /\ local = [t \in Threads |-> NoOp]
    /\ ret = [t \in Threads |-> NoOp]
    /\ clock = 0
    /\ nextId = 0
    /\ nops = 0
    /\ lastFull = << >>
    /\ returned = {}
    /\ server = FALSE
    /\ pc = [t \in Threads |-> IF t = 1 THEN "idle" ELSE "off"]
    /\ idxCorrupt = {}
    /\ script = Free
    /\ other \in {[db |-> db, name |-> name, documents |-> << >>, idxFile |-> EmptyDict] :
                    db \in OtherDatabases, name \in OtherNames}
    /\ dirs = {DbName, other.db}
    /\ db_cache = {}
    /\ collExists = TRUE
    /\ dropped = {}

NextCollections ==
    \/ Next
    \/ OtherInsert
    \/ OtherUpdate
    \/ OtherDelete
    \/ OtherCreateIndex
    \/ OtherDropIndex

SpecCollections == InitCollections /\ [][NextCollections]_vars

(***************************************************************************)
(* Faults: what the environment does to the files and to the process.      *)
(***************************************************************************)
\* No thread is inside an operation.
Quiet == \A t \in Threads : pc[t] \in {"idle", "closed", "off"}

\* The index file of a field is removed by something other than the program,
\* between two operations.
UnlinkIndex ==
    /\ Quiet
    /\ \E f \in DOMAIN idxFile :
         /\ idxFile' = DictDel(idxFile, f)
         /\ idxCorrupt' = idxCorrupt \ {f}
    /\ UNCHANGED <<script, server, collFile, collPartial, pc, indices, local, ret, clock,
                   nextId, nops, lastFull, returned>>
    /\ UNCHANGED <<dirs, db_cache, collExists, dropped, other>>

\* The index file of a field is left with content json.load rejects, between
\* two operations.
CorruptIndex ==
    /\ Quiet
    /\ \E f \in DOMAIN idxFile \ idxCorrupt :
         /\ idxFile' = DictSet(idxFile, f, EmptyDict)
         /\ idxCorrupt' = idxCorrupt \cup {f}
    /\ UNCHANGED <<script, server, collFile, collPartial, pc, indices, local, ret, clock,
                   nextId, nops, lastFull, returned>>
    /\ UNCHANGED <<dirs, db_cache, collExists, dropped, other>>

\* The process stops inside an operation: the files stay as they are, the
\* handle is gone, and the next thing the caller does is open the collection.
Crash(t) ==
    /\ pc[t] \in {"ins_open", "ins_dump", "ins_index", "upd_open", "upd_dump",
                  "del_open", "del_dump", "del_index"}
    /\ pc' = [pc EXCEPT ![t] = "closed"]
    /\ ret' = [ret EXCEPT ![t] = [op |-> "crash", at |-> pc[t]]]
    /\ local' = [local EXCEPT ![t] = NoOp]
    /\ indices' = [indices EXCEPT ![t] = EmptyDict]
    /\ UNCHANGED <<script, idxCorrupt, server, collFile, collPartial, idxFile, clock,
                   nextId, nops, lastFull, returned>>
    /\ UNCHANGED <<dirs, db_cache, collExists, dropped, other>>

\* _write_collection raises: open(path, 'w') fails and the file is as it was,
\* or json.dump fails after open truncated the file.  Nothing catches the
\* exception on its way to the caller.
WriteFail(t) ==
    /\ pc[t] \in {"ins_open", "upd_open", "del_open"}
    /\ \E truncated \in BOOLEAN :
         /\ collFile' = IF truncated THEN << >> ELSE collFile
         /\ collPartial' = (truncated \/ collPartial)
    /\ Return(t, [op |-> local[t].op, failed |-> TRUE], indices[t])
    /\ UNCHANGED <<script, idxCorrupt, server, idxFile, clock, nextId, nops, lastFull,
                   returned>>
    /\ UNCHANGED <<dirs, db_cache, collExists, dropped, other>>

NextFaults ==
    \/ Next
    \/ UnlinkIndex
    \/ CorruptIndex
    \/ \E t \in Threads : Crash(t) \/ WriteFail(t)

SpecFaults == Init /\ [][NextFaults]_vars

\* The scripted caller: it drops no index.
NextScenario ==
    \E t \in Threads :
         \/ Open(t)
         \/ InsertRead(t)
         \/ WriteOpen(t)
         \/ InsertDump(t)
         \/ InsertIndex(t)
         \/ Find(t)
         \/ UpdateRead(t)
         \/ UpdateDump(t)
         \/ DeleteRead(t)
         \/ DeleteDump(t)
         \/ DeleteIndex(t)
         \/ CreateIndex(t)
         \/ ListIndices(t)

SpecScenario == InitScenario /\ [][NextScenario]_vars

SpecOperators == InitOperators /\ [][NextScenario]_vars

SpecMixed == InitMixed /\ [][NextScenario]_vars

SpecDotted == InitDotted /\ [][NextScenario]_vars

(***************************************************************************)
(* Vocabulary of the properties.                                           *)
(***************************************************************************)
Reserved == {"_id", "_created_at", "_updated_at"}

\* The library caller of Spec, between two operations.
Caller == CHOOSE t \in Threads : \A u \in Threads : t <= u
AtRest == pc[Caller] = "idle"

\* No request thread of the server is inside a request.
AllClosed == \A t \in Threads : pc[t] \in {"closed", "idle"}

\* From its read of the collection file to its last write of a file.
InReadModifyWrite(t) ==
    pc[t] \in {"ins_open", "ins_dump", "ins_index", "upd_open", "upd_dump",
               "del_open", "del_dump", "del_index"}

Occurrences(documents, id) ==
    Cardinality({j \in 1..Len(documents) : PyEq(documents[j]["_id"], id)})

\* The ids some bucket of the index holds under key.
Bucket(index, key) == IF key \in DOMAIN index THEN index[key] ELSE << >>

(***************************************************************************)
(* C1.  Index transparency: between operations, for every indexed field f  *)
(* and every value v, find({f: v}) through the handle returns what it      *)
(* returns with the index on f taken away.                                 *)
(***************************************************************************)
C1_IndexTransparency ==
    AtRest =>
      \A f \in DOMAIN indices[Caller], v \in Vals :
        Collection_find(collFile, indices[Caller], Clause(f, v))
          = Collection_find(collFile, DictDel(indices[Caller], f), Clause(f, v))

(***************************************************************************)
(* C2.  Index/document consistency: between operations, for every indexed  *)
(* field f, an id is in the bucket of key k exactly when a stored document *)
(* with that _id has field f with normalized value k.                      *)
(***************************************************************************)
C2_IndexMatchesDocuments ==
    AtRest =>
      \A f \in DOMAIN indices[Caller] :
        LET index == indices[Caller][f]
            keys == DOMAIN index \cup
                      {get_indexable_value(collFile[j][f]) :
                         j \in {m \in 1..Len(collFile) : f \in DOMAIN collFile[m]}}
            ids == {collFile[j]["_id"] : j \in 1..Len(collFile)}
                     \cup UNION {{index[k][j] : j \in 1..Len(index[k])} : k \in DOMAIN index}
        IN \A k \in keys, id \in ids :
             InList(id, Bucket(index, k))
               <=> \E j \in 1..Len(collFile) :
                     /\ PyEq(collFile[j]["_id"], id)
                     /\ f \in DOMAIN collFile[j]
                     /\ get_indexable_value(collFile[j][f]) = k

(***************************************************************************)
(* C3.  Concurrent writers: when the only requests so far are inserts and  *)
(* all of them have returned, the collection file holds every returned id  *)
(* exactly once and nothing else.                                          *)
(***************************************************************************)
C3_NoInsertLost ==
    (AllClosed /\ nops = nextId) =>
      /\ \A id \in returned : Occurrences(collFile, id) = 1
      /\ Len(collFile) = Cardinality(returned)

(***************************************************************************)
(* C4.  Per-collection serialization: no two threads are at the same time  *)
(* between the read and the last write of a mutating operation.            *)
(***************************************************************************)
C4_WritersSerialized ==
    \A t \in Threads, u \in Threads :
      (InReadModifyWrite(t) /\ InReadModifyWrite(u)) => t = u

(***************************************************************************)
(* C5.  A find never observes a partially written collection file: a find  *)
(* with the empty query returns the document list as it was last written   *)
(* completely, or the list a write in progress is about to leave.          *)
(***************************************************************************)
C5_FindSeesWholeFile ==
    \A t \in Threads :
      (ret[t].op = "find" /\ ret[t].query = << >>) =>
        (ret[t].result = ret[t].stable \/ ret[t].result \in ret[t].pending)

(***************************************************************************)
(* C6.  Round trip: right after id = insert(d), find({"_id": id}) returns  *)
(* exactly one document; it has every field of d with d's value, and the   *)
(* three reserved fields.                                                  *)
(***************************************************************************)
C6_RoundTrip ==
    (AtRest /\ ret[Caller].op = "insert") =>
      LET found == Collection_find(collFile, indices[Caller], Clause("_id", ret[Caller].id))
      IN /\ Len(found) = 1
         /\ \A f \in DOMAIN ret[Caller].input : f \in DOMAIN found[1] /\ found[1][f] = ret[Caller].input[f]
         /\ Reserved \subseteq DOMAIN found[1]

(***************************************************************************)
(* C7.  The id insert returns is the _id of the document it stored, and    *)
(* the indices hold the document under that _id.                           *)
(***************************************************************************)
C7_ReturnedIdIsStoredId ==
    (AtRest /\ ret[Caller].op = "insert") =>
      /\ ret[Caller].id = ret[Caller].data["_id"]
      /\ collFile[Len(collFile)]["_id"] = ret[Caller].id
      /\ \A f \in DOMAIN indices[Caller] :
           (f \in DOMAIN ret[Caller].data /\ ret[Caller].data[f] # Null) =>
             InList(ret[Caller].data["_id"],
                    Bucket(indices[Caller][f], get_indexable_value(ret[Caller].data[f])))

(***************************************************************************)
(* C8.  Uniqueness of _id: no two stored documents have the same _id.      *)
(***************************************************************************)
C8_IdsUnique ==
    AtRest =>
      \A j \in 1..Len(collFile), m \in 1..Len(collFile) :
        PyEq(collFile[j]["_id"], collFile[m]["_id"]) => j = m

(***************************************************************************)
(* C9.  Immutability of _id: the document list an update is about to       *)
(* write has, at every position, the _id the document had when read.       *)
(***************************************************************************)
C9_UpdateKeepsId ==
    [][\A t \in Threads :
         (pc[t] = "idle" /\ pc'[t] = "upd_open") =>
           /\ Len(local'[t].documents) = Len(collFile)
           /\ \A j \in 1..Len(collFile) :
                local'[t].documents[j]["_id"] = collFile[j]["_id"]]_vars

(***************************************************************************)
(* C10.  Every stored document has _id, _created_at and _updated_at, and   *)
(* none of them is null.                                                   *)
(***************************************************************************)
C10_ReservedPopulated ==
    AtRest =>
      \A j \in 1..Len(collFile), f \in Reserved :
        f \in DOMAIN collFile[j] /\ collFile[j][f] # Null

(***************************************************************************)
(* C11.  Null versus absent: between operations, find({a: v}) never        *)
(* returns a document that lacks a, and find({a: null}) returns exactly    *)
(* the stored documents whose a is null, in stored order.                  *)
(***************************************************************************)
C11_NullVersusAbsent ==
    AtRest =>
      /\ \A v \in Vals :
           LET found == Collection_find(collFile, indices[Caller], Clause("a", v))
           IN \A j \in 1..Len(found) : "a" \in DOMAIN found[j]
      /\ Collection_find(collFile, indices[Caller], Clause("a", Null))
           = SelectSeq(collFile, LAMBDA doc : "a" \in DOMAIN doc /\ doc["a"] = Null)

(***************************************************************************)
(* C12.  Reference scenario: on an empty collection, after the inserts of  *)
(* {name: n1, age: a1} and {name: n2, age: a2} and create_index(age) (the  *)
(* index created before, between or after the inserts; n1 # n2; a1, a2, a3 *)
(* distinct; the claim's values are Alice, Bob, 30, 25, 26 with the index  *)
(* created last), find({age: a2}) returns exactly the second person,       *)
(* update({name: n2}, {$set: {age: a3}}) returns 1, then find({age: a2})   *)
(* returns nothing and find({age: a3}) exactly the second person with the  *)
(* new age, delete({name: n1}) returns 1 and list_indices() contains age.  *)
(***************************************************************************)
Exactly(result, name, age) ==
    /\ Len(result) = 1
    /\ {"name", "age"} \subseteq DOMAIN result[1]
    /\ result[1]["name"] = name
    /\ result[1]["age"] = age

Distinct(calls) ==
    LET n1 == calls[8].query[1].v
        n2 == calls[5].query[1].v
        a2 == calls[4].query[1].v
        a3 == calls[7].query[1].v
        people == {calls[j].document : j \in {m \in 1..3 : calls[m].op = "insert"}}
    IN /\ n1 # n2
       /\ a2 # a3
       /\ \A d \in people : d["name"] = n1 => (d["age"] # a2 /\ d["age"] # a3)

C12_ReferenceScenario ==
    (AtRest /\ Scripted /\ Distinct(script.calls)) =>
      LET done == script.pos - 1
          r == ret[Caller]
          n2 == script.calls[5].query[1].v
          a2 == script.calls[4].query[1].v
          a3 == script.calls[7].query[1].v
      IN /\ done = 4 => Exactly(r.result, n2, a2)
         /\ done = 5 => r.count = 1
         /\ done = 6 => r.result = << >>
         /\ done = 7 => Exactly(r.result, n2, a3)
         /\ done = 8 => r.count = 1
         /\ done = 9 => "age" \in r.result

C12_ScenarioCompleted ==
    /\ AtRest
    /\ script.calls = Reference("Alice", "Bob", 30, 25, 26, 2)
    /\ script.pos = 10
    /\ ret[Caller].op = "list_indices"
    /\ Len(collFile) = 1
    /\ collFile[1]["name"] = Str("Bob")
    /\ collFile[1]["age"] = Num(26)

(***************************************************************************)
(* C13.  Idempotence of $set.  The document list a $set update is about to *)
(* write is `first`; the same update applied to it gives `second`.         *)
(* As stated in the claim: second equals first.                            *)
(***************************************************************************)
SecondApplication(t) ==
    UpdateLoop(local[t].documents, 1, local[t].query, local[t].update, clock,
               indices[t], {}, 0)

AfterSet(t) == pc[t] = "upd_open" /\ local[t].update.hasSet

C13_SetIdempotentWithTimestamp ==
    \A t \in Threads :
      AfterSet(t) => SecondApplication(t).documents = local[t].documents

(***************************************************************************)
(* C13, amended.  Idempotence of $set up to _updated_at: the second        *)
(* application leaves every document as the first left it, except that     *)
(* each document it matches gets a new _updated_at.                        *)
(***************************************************************************)
WithoutUpdatedAt(documents) ==
    [j \in 1..Len(documents) |-> DictDel(documents[j], "_updated_at")]

C13_SetIdempotent ==
    \A t \in Threads :
      AfterSet(t) =>
        WithoutUpdatedAt(SecondApplication(t).documents)
          = WithoutUpdatedAt(local[t].documents)

C13_SecondApplicationMatches ==
    /\ AfterSet(Caller)
    /\ SecondApplication(Caller).count > 0
    /\ local[Caller].query # << >>
    /\ local[Caller].update.set # One("_created_at", Null)
    /\ local[Caller].documents # collFile

(***************************************************************************)
(* C14.  Index rebuild: when a handle is reopened after the index file of  *)
(* a field it indexed was deleted, find({field: v}) through the new handle *)
(* returns, for every v, what it returned through the old one.             *)
(***************************************************************************)
C14_SameResultsAfterUnlink ==
    [][\A t \in Threads :
         (pc[t] = "idle" /\ Open(t)) =>
           \A f \in DOMAIN indices[t] \ DOMAIN idxFile, v \in Vals :
             Collection_find(read_collection, indices'[t], Clause(f, v))
               = Collection_find(read_collection, indices[t], Clause(f, v))]_vars

(***************************************************************************)
(* C15.  Corrupt-index recovery: when a handle is opened while the index   *)
(* file of a field does not parse, the open succeeds and afterwards the    *)
(* handle's index on the field and the index file both hold the index a    *)
(* full scan of the collection's documents gives.                          *)
(***************************************************************************)
C15_CorruptIndexRebuilt ==
    [][\A t \in Threads :
         Open(t) =>
           \A f \in idxCorrupt :
             /\ f \in DOMAIN indices'[t]
             /\ indices'[t][f] = Index_build_index(read_collection, f)
             /\ f \in DOMAIN idxFile' \ idxCorrupt'
             /\ idxFile'[f] = Index_build_index(read_collection, f)]_vars

(***************************************************************************)
(* C16.  Crash recovery: when the process stopped between the write of the *)
(* collection file and the write of the index files of an operation (in    *)
(* the order the operation makes them) and the collection has been         *)
(* reopened, find({f: v}) on every indexed field f returns exactly the     *)
(* persisted documents whose f equals v.                                   *)
(***************************************************************************)
BetweenTheWrites == {"ins_index", "upd_open", "upd_dump", "del_index"}

C16_IndexAgreesAfterCrash ==
    (AtRest /\ ret[Caller].op = "crash" /\ ret[Caller].at \in BetweenTheWrites) =>
      \A f \in DOMAIN indices[Caller], v \in Vals :
        Collection_find(read_collection, indices[Caller], Clause(f, v))
          = Scan(read_collection, Clause(f, v))

(***************************************************************************)
(* C17.  State unchanged on storage failure: when the write of the         *)
(* collection file fails in insert, update or delete, the caller gets the  *)
(* failure, the collection file holds the complete document list it held   *)
(* before the operation, and the handle's indices and the index files are  *)
(* as they were before the operation.                                      *)
(***************************************************************************)
BeforeOperation(t) ==
    IF local[t].op = "update" THEN local[t].before
    ELSE [indices |-> indices[t], idxFile |-> idxFile, idxCorrupt |-> idxCorrupt]

C17_UnchangedOnWriteFailure ==
    [][\A t \in Threads :
         WriteFail(t) =>
           /\ ret'[t].failed
           /\ collFile' = collFile
           /\ collPartial' = collPartial
           /\ indices'[t] = BeforeOperation(t).indices
           /\ idxFile' = BeforeOperation(t).idxFile
           /\ idxCorrupt' = BeforeOperation(t).idxCorrupt]_vars

(***************************************************************************)
(* C18.  Replacement update: in the document list an update without $set   *)
(* and $inc is about to write, every document that matched the query has   *)
(* as its non-reserved fields exactly the fields of the update document,   *)
(* with their values, and the _id it had.                                  *)
(***************************************************************************)
C18_ReplacementReplaces ==
    \A t \in Threads :
      (pc[t] = "upd_open" /\ ~local[t].update.hasSet /\ ~local[t].update.hasInc) =>
        /\ Len(local[t].documents) = Len(collFile)
        /\ \A j \in 1..Len(collFile) :
             Match(collFile[j], local[t].query) =>
               LET doc == local[t].documents[j]
                   plain == local[t].update.plain
               IN /\ DOMAIN doc \ Reserved = DOMAIN plain \ Reserved
                  /\ \A f \in DOMAIN plain \ Reserved : doc[f] = plain[f]
                  /\ doc["_id"] = collFile[j]["_id"]

(***************************************************************************)
(* C19.  Frame of $set: the write that ends update(query, {$set: S})       *)
(* leaves the collection file with the documents it held before, in the    *)
(* same order; a document that does not match the query is unchanged, and  *)
(* a document that matches differs from what it was at most in the fields  *)
(* of S and in _updated_at.                                                *)
(***************************************************************************)
SameOutside(old_doc, doc, fields) ==
    /\ DOMAIN old_doc \ fields = DOMAIN doc \ fields
    /\ \A f \in DOMAIN old_doc \ fields : doc[f] = old_doc[f]

C19_SetFrame ==
    [][\A t \in Threads :
         (UpdateDump(t) /\ local[t].update.hasSet) =>
           /\ Len(collFile') = Len(lastFull)
           /\ \A j \in 1..Len(lastFull) :
                IF Match(lastFull[j], local[t].query)
                THEN SameOutside(lastFull[j], collFile'[j],
                                 DOMAIN local[t].update.set \cup {"_updated_at"})
                ELSE collFile'[j] = lastFull[j]]_vars

\* A $set update is about to write two documents of which it matched one,
\* and the matched one has a field outside S.
C19_SetOnOneOfTwo ==
    /\ pc[Caller] = "upd_dump"
    /\ local[Caller].update.hasSet
    /\ Len(local[Caller].documents) = 2
    /\ local[Caller].count = 1
    /\ \E j \in 1..2 :
         /\ Match(lastFull[j], local[Caller].query)
         /\ "a" \in DOMAIN lastFull[j]
         /\ "a" \notin DOMAIN local[Caller].update.set

(***************************************************************************)
(* C20.  $inc: in the document list update(query, {$inc: {f: d}}) is about *)
(* to write, field f of every document that matched is its old value plus  *)
(* d when the old value was a number, and d when the document had no f or  *)
(* f held anything else (null, a boolean, a string).                       *)
(***************************************************************************)
IsNumber(v) == v.t = "num"

C20_IncAddsOrReplaces ==
    \A t \in Threads :
      (pc[t] = "upd_open" /\ local[t].update.hasInc) =>
        \A j \in 1..Len(collFile), f \in DOMAIN local[t].update.inc :
          Match(collFile[j], local[t].query) =>
            LET old_doc == collFile[j]
                doc == local[t].documents[j]
                d == local[t].update.inc[f]
            IN /\ f \in DOMAIN doc
               /\ doc[f] = IF f \in DOMAIN old_doc /\ IsNumber(old_doc[f])
                           THEN Num(old_doc[f].n + d.n)
                           ELSE d

(***************************************************************************)
(* C23.  find(query): between operations, the result of the find that has  *)
(* just returned is exactly the stored documents in which every field of   *)
(* the query is present with an equal value, in the order they are stored; *)
(* the stored documents are in the order of their insertion; an empty      *)
(* query returns every stored document.                                    *)
(***************************************************************************)
HasAll(doc, query) ==
    \A j \in 1..Len(query) :
        query[j].k \in DOMAIN doc /\ PyEq(doc[query[j].k], query[j].v)

InInsertionOrder(documents) ==
    \A i \in 1..Len(documents), j \in 1..Len(documents), m \in 1..MaxInserts, n \in 1..MaxInserts :
        (i < j /\ documents[i]["_id"] = Uuid(m) /\ documents[j]["_id"] = Uuid(n)) => m < n

C24_UpdateCount ==
    [][\A t \in Threads :
         /\ UpdateRead(t) =>
              LET writes == pc'[t] = "upd_open"
                  query == IF writes THEN local'[t].query ELSE ret'[t].query
                  matched == {j \in 1..Len(collFile) : HasAll(collFile[j], query)}
              IN IF matched = {}
                 THEN /\ ~writes
                      /\ ret'[t].op = "update" /\ ret'[t].count = 0
                      /\ collFile' = collFile /\ collPartial' = collPartial
                      /\ idxFile' = idxFile /\ idxCorrupt' = idxCorrupt
                      /\ indices' = indices
                 ELSE /\ writes
                      /\ local'[t].count = Cardinality(matched)
                      /\ Len(local'[t].documents) = Len(collFile)
                      /\ {j \in 1..Len(collFile) : local'[t].documents[j] # collFile[j]} = matched
         /\ UpdateDump(t) =>
              /\ ret'[t].op = "update" /\ ret'[t].count = local[t].count
              /\ collFile' = local[t].documents
      ]_vars

\* An update that matched nothing has returned 0 on a collection that holds
\* documents and has an index.
C24_NoMatchOnIndexed ==
    /\ AtRest
    /\ ret[Caller].op = "update" /\ ret[Caller].count = 0 /\ ret[Caller].query # << >>
    /\ collFile # << >>
    /\ \E f \in DOMAIN indices[Caller] : indices[Caller][f] # EmptyDict

(***************************************************************************)
(* C25.  delete(query) removes exactly the stored documents that match the *)
(* query (every document matches the empty query), keeps the others as     *)
(* they are and in their order, and returns the number removed; a find     *)
(* returns only documents that are stored, so never a removed one.         *)
(***************************************************************************)
Kept(documents, query) == SelectSeq(documents, LAMBDA doc : ~HasAll(doc, query))

\* The steps of a delete whose query is one of `removing`.
DeleteSteps(t, removing) ==
    /\ DeleteRead(t) =>
         LET writes == pc'[t] = "del_open"
             query == IF writes THEN local'[t].query ELSE ret'[t].query
         IN IF query \in removing /\ Kept(collFile, query) # collFile
            THEN /\ writes
                 /\ local'[t].documents = Kept(collFile, query)
                 /\ local'[t].count = Len(collFile) - Len(Kept(collFile, query))
            ELSE /\ ~writes
                 /\ ret'[t].op = "delete" /\ ret'[t].count = 0
                 /\ collFile' = collFile /\ idxFile' = idxFile /\ indices' = indices
    /\ DeleteDump(t) => collFile' = local[t].documents
    /\ DeleteIndex(t) =>
         /\ ret'[t].op = "delete" /\ ret'[t].count = local[t].count
         /\ collFile' = collFile
         /\ Kept(collFile, local[t].query) = collFile
    /\ Find(t) =>
         \A j \in 1..Len(ret'[t].result) :
             \E i \in 1..Len(collFile) : collFile[i] = ret'[t].result[j]

C26_HandlesAgree ==
    \A t \in Threads, u \in Threads :
        (pc[t] = "idle" /\ pc[u] = "idle") =>
            /\ DOMAIN indices[t] = DOMAIN indices[u]
            /\ indices[t] = indices[u]
            /\ \A query \in QueryInputs :
                 Collection_find(read_collection, indices[t], query)
                   = Collection_find(read_collection, indices[u], query)

(***************************************************************************)
(* C30.  Index operations through the request dispatcher: a create_index   *)
(* request on the existing collection succeeds and leaves an index on the  *)
(* field; a list_indices request succeeds and reports the indexed fields;  *)
(* a drop_index request for an indexed field succeeds and removes the      *)
(* index.                                                                  *)
(***************************************************************************)
C30_IndexRequestsSucceed ==
    [][\A t \in Threads :
         /\ CreateIndex(t) =>
              /\ ret'[t].success
              /\ ret'[t].field \in DOMAIN idxFile'
         /\ ListIndices(t) =>
              /\ ret'[t].success
              /\ ret'[t].result = DOMAIN idxFile
         /\ (DropIndex(t) /\ ret'[t].field \in DOMAIN idxFile) =>
              /\ ret'[t].success
              /\ ret'[t].field \notin DOMAIN idxFile'
      ]_vars

(***************************************************************************)
(* C21.  Unknown update operator: an update whose update document has a    *)
(* key starting with $ other than $set and $inc returns a validation error *)
(* to the caller at once, and changes no stored document and no index.     *)
(***************************************************************************)
UsesUnknownOperator(update) == DOMAIN update.plain \cap OtherOperators # {}

C21_UnknownOperatorRejected ==
    [][\A t \in Threads :
         (UpdateRead(t) /\ UsesUnknownOperator(NextCall.update)) =>
            /\ pc'[t] = "idle"
            /\ ret'[t].op = "update" /\ "error" \in DOMAIN ret'[t]
            /\ collFile' = collFile
            /\ idxFile' = idxFile
            /\ indices' = indices
      ]_vars

(***************************************************************************)
(* C22.  Comparison operators: a find, update or delete whose query is     *)
(* {field: {$lt | $lte | $gt | $gte: v}} selects exactly the stored        *)
(* documents that have the field with a number respectively less than, at  *)
(* most, greater than, at least v: find returns them in stored order, and  *)
(* update and delete work on as many documents as there are such.          *)
(***************************************************************************)
IsComparison(query) ==
    Len(query) = 1 /\ query[1].v.t = "map" /\ query[1].v.s \in ComparisonOperators

Compares(n, op, v) ==
    CASE op = "$lt" -> n < v
      [] op = "$lte" -> n <= v
      [] op = "$gt" -> n > v
      [] op = "$gte" -> n >= v

Satisfies(doc, query) ==
    /\ query[1].k \in DOMAIN doc
    /\ doc[query[1].k].t = "num"
    /\ Compares(doc[query[1].k].n, query[1].v.s, query[1].v.n)

Selected(documents, query) == SelectSeq(documents, LAMBDA doc : Satisfies(doc, query))

C22_ComparisonOperators ==
    [][\A t \in Threads :
         /\ (Find(t) /\ IsComparison(NextCall.query)) =>
               ret'[t].result = Selected(collFile, NextCall.query)
         /\ (UpdateRead(t) /\ IsComparison(NextCall.query)) =>
               IF Selected(collFile, NextCall.query) = << >>
               THEN pc'[t] = "idle" /\ ret'[t].count = 0
               ELSE /\ pc'[t] = "upd_open"
                    /\ local'[t].count = Len(Selected(collFile, NextCall.query))
         /\ (DeleteRead(t) /\ IsComparison(NextCall.query)) =>
               IF Selected(collFile, NextCall.query) = << >>
               THEN pc'[t] = "idle" /\ ret'[t].count = 0
               ELSE /\ pc'[t] = "del_open"
                    /\ local'[t].count = Len(Selected(collFile, NextCall.query))
      ]_vars

(***************************************************************************)
(* C27.  drop_database: a successful drop_database(name) leaves name out   *)
(* of the database directories and out of the cache; and from then on no   *)
(* id that was stored in the database when it was dropped is in the        *)
(* collection file, in an index file or in the result of a find, whatever  *)
(* the other requests were doing when the drop ran.                        *)
(***************************************************************************)
C27_NothingSurvivesDrop ==
    [][/\ \A t \in Threads :
            (DropDatabase(t) /\ ret'[t].success) =>
                /\ ret'[t].database \notin dirs'
                /\ ret'[t].database \notin db_cache'
       /\ \A t \in Threads :
            Find(t) =>
                \A j \in 1..Len(ret'[t].result) : ret'[t].result[j]["_id"] \notin dropped
       /\ StoredIds' \cap dropped' = {}
      ]_vars

(***************************************************************************)
(* C28.  list_collections on a database that does not exist fails: it does *)
(* not succeed with an empty list.                                         *)
(***************************************************************************)
C28_ListCollectionsNotFound ==
    [][\A t \in Threads :
         (ListCollections(t) /\ ret'[t].database \notin dirs) => ~ret'[t].success
      ]_vars

(***************************************************************************)
(* C29.  Name validation: a request whose database name is not a non-empty *)
(* string of letters, digits and underscore is rejected with an error and  *)
(* creates and removes no directory and no file.                           *)
(***************************************************************************)
validate_db_name(name) == name \in {"db", "nodb"}

C29_InvalidNameRejected ==
    [][\A t \in Threads :
         ((CreateDatabase(t) \/ DropDatabase(t) \/ ListCollections(t))
            /\ ~validate_db_name(ret'[t].database)) =>
               /\ ~ret'[t].success
               /\ UNCHANGED <<dirs, collExists, collFile, idxFile>>
      ]_vars

(***************************************************************************)
(* C31.  create_index(field) through a Collection handle returns True when *)
(* the handle had no index on the field and False when it had one; in both *)
(* cases the handle has an index on the field afterwards, and an index it  *)
(* had already is left as it was, in memory and on disk.                   *)
(***************************************************************************)
C31_CreateIndexReportsCreation ==
    [][\A t \in Threads :
         (CreateIndex(t) /\ ~server) =>
            LET field == ret'[t].field
                existed == field \in DOMAIN indices[t]
            IN /\ ret'[t].success = ~existed
               /\ field \in DOMAIN indices'[t]
               /\ existed => (indices'[t] = indices[t] /\ idxFile' = idxFile)
      ]_vars

(***************************************************************************)
(* C33.  Ordering inside update: the part of an update that comes before   *)
(* its write of the collection file changes no index, in memory or on      *)
(* disk; and the update writes the collection file once, with the whole    *)
(* batch, and returns.                                                     *)
(***************************************************************************)
C33_IndicesAfterWrite ==
    [][\A t \in Threads :
         /\ UpdateRead(t) =>
              /\ indices'[t] = indices[t]
              /\ idxFile' = idxFile
         /\ UpdateDump(t) =>
              /\ collFile' = local[t].documents
              /\ pc'[t] = "idle"
      ]_vars

(***************************************************************************)
(* C38.  delete with an empty query returns 0 at once and removes nothing: *)
(* the collection file, the index files and the handle's indices are as    *)
(* they were, whatever the collection holds.  find with an empty query     *)
(* returns every stored document, and update with an empty query works on  *)
(* every stored document.                                                  *)
(***************************************************************************)
C38_EmptyQueryDeletesNothing ==
    [][\A t \in Threads :
         /\ (DeleteRead(t) /\ pc'[t] = "del_open") => local'[t].query # << >>
         /\ (DeleteRead(t) /\ pc'[t] # "del_open" /\ ret'[t].query = << >>) =>
              /\ ret'[t].op = "delete" /\ ret'[t].count = 0
              /\ collFile' = collFile /\ collPartial' = collPartial
              /\ idxFile' = idxFile /\ indices' = indices
         /\ (Find(t) /\ ret'[t].query = << >>) => ret'[t].result = collFile
         /\ (UpdateRead(t) /\ pc'[t] = "upd_open" /\ local'[t].query = << >>) =>
              local'[t].count = Len(collFile)
         /\ (UpdateRead(t) /\ pc'[t] # "upd_open" /\ ret'[t].query = << >>) =>
              collFile = << >>
      ]_vars

\* A delete with an empty query has returned 0 on a collection that holds a
\* document.
C38_EmptyDeleteOnStored ==
    /\ AtRest
    /\ ret[Caller].op = "delete" /\ ret[Caller].query = << >> /\ ret[Caller].count = 0
    /\ collFile # << >>

(***************************************************************************)
(* C35.  No value bucket of an index is empty, in the memory of a handle   *)
(* or in an index file: a key whose last id was taken out by an index      *)
(* update or removal is gone from the index.                               *)
(***************************************************************************)
NoEmptyBucket(index) == \A key \in DOMAIN index : index[key] # << >>

C35_NoEmptyBucket ==
    /\ \A t \in Threads : \A f \in DOMAIN indices[t] : NoEmptyBucket(indices[t][f])
    /\ \A f \in DOMAIN idxFile : NoEmptyBucket(idxFile[f])

\* A delete by a value of the indexed field has removed the one document of
\* its bucket, and the index is left without any key.
C35_LastIdRemoved ==
    /\ AtRest
    /\ ret[Caller].op = "delete" /\ ret[Caller].count = 1
    /\ ret[Caller].query \in {Clause("a", Num(1)), Clause("a", Str("1"))}
    /\ "a" \in DOMAIN indices[Caller]
    /\ indices[Caller]["a"] = EmptyDict
    /\ idxFile["a"] = EmptyDict

(***************************************************************************)
(* C34.  Exclusive operator detection: in the document list an update is   *)
(* about to write, a document that matched the query differs from what it  *)
(* was only in _updated_at and in the fields of the first form the update  *)
(* document has, in the order $set, $inc, other keys.  With $set present   *)
(* the fields of $set have the values of $set and nothing else changes: a  *)
(* field of $inc is not incremented, no key of the update document becomes *)
(* a field, and no field is named $set or $inc.  With $inc and other keys, *)
(* only the fields of $inc change.                                         *)
(***************************************************************************)
C34_FirstFormOnly ==
    \A t \in Threads :
      (pc[t] = "upd_open" /\ (local[t].update.hasSet \/ local[t].update.hasInc)) =>
        /\ Len(local[t].documents) = Len(collFile)
        /\ \A j \in 1..Len(collFile) :
             LET old_doc == collFile[j]
                 doc == local[t].documents[j]
                 update == local[t].update
             IN IF HasAll(old_doc, local[t].query)
                THEN /\ {"$set", "$inc"} \cap DOMAIN doc = {}
                     /\ IF update.hasSet
                        THEN /\ SameOutside(old_doc, doc, DOMAIN update.set \cup {"_updated_at"})
                             /\ \A f \in DOMAIN update.set : doc[f] = update.set[f]
                        ELSE /\ SameOutside(old_doc, doc, DOMAIN update.inc \cup {"_updated_at"})
                             /\ DOMAIN update.inc \subseteq DOMAIN doc
                ELSE doc = old_doc

\* An update with $set and $inc is about to write a document that matched
\* and holds a number in a field of $inc that $set does not name.
C34_SetAndIncOnNumber ==
    /\ pc[Caller] = "upd_open"
    /\ local[Caller].update.hasSet /\ local[Caller].update.hasInc
    /\ \E j \in 1..Len(collFile), f \in DOMAIN local[Caller].update.inc :
         /\ HasAll(collFile[j], local[Caller].query)
         /\ f \in DOMAIN collFile[j] /\ collFile[j][f].t = "num"
         /\ f \notin DOMAIN local[Caller].update.set
         /\ local[Caller].documents[j][f] = collFile[j][f]

(***************************************************************************)
(* C39.  Read operations are read-only: a list_collections request, and a  *)
(* find request from the construction of its handle to its answer, leave   *)
(* the database directories, the collection file and the index files as    *)
(* they are, also when the database or the collection does not exist.      *)
(* (A request thread constructs its handle before it looks at the          *)
(* collection: Open(t) with a request still to come is the first step of a *)
(* find request as of any other document request.)                         *)
(***************************************************************************)
C39_ReadsCreateNothing ==
    [][\A t \in Threads :
         /\ (ListCollections(t) \/ Find(t)) =>
              UNCHANGED <<dirs, collExists, collFile, idxFile>>
         /\ (server /\ Open(t) /\ nops < MaxOps) =>
              UNCHANGED <<dirs, collExists, collFile, idxFile>>
      ]_vars

(***************************************************************************)
(* C32.  drop_index(field) through a Collection handle returns True        *)
(* exactly when the collection had an index on the field (a handle's or an *)
(* index file); afterwards the handle does not list the field and the      *)
(* index file of the field does not exist; and no step of an insert, an    *)
(* update or a delete creates an index file that does not exist or gives a *)
(* handle an index it does not have.  (Index files are removed by          *)
(* drop_index only, so a file that does not exist is the file of a field   *)
(* that was never indexed or whose index was dropped and not created       *)
(* again.)                                                                 *)
(***************************************************************************)
C32_DroppedIndexStaysDropped ==
    [][\A t \in Threads :
         /\ (DropIndex(t) /\ ~server) =>
              LET field == ret'[t].field
              IN /\ ret'[t].success = (field \in DOMAIN indices[t] \/ field \in DOMAIN idxFile)
                 /\ field \notin DOMAIN indices'[t]
                 /\ field \notin DOMAIN idxFile'
         /\ (InsertRead(t) \/ WriteOpen(t) \/ InsertDump(t) \/ InsertIndex(t)
               \/ UpdateRead(t) \/ UpdateDump(t)
               \/ DeleteRead(t) \/ DeleteDump(t) \/ DeleteIndex(t)) =>
              /\ DOMAIN idxFile' \subseteq DOMAIN idxFile
              /\ DOMAIN indices'[t] \subseteq DOMAIN indices[t]
      ]_vars

(***************************************************************************)
(* C36.  Synchronous index durability: when a step of a handle has called  *)
(* Index.add, Index.remove or Index.update on the index of a field, or has *)
(* built or loaded that index, the index file of the field exists and      *)
(* holds exactly the buckets the handle has in memory for the field.       *)
(***************************************************************************)
\* The fields of handle t on whose index the step calls Index.add,
\* Index.remove or Index.update, or whose index it constructs.
CalledOn(t) ==
    CASE InsertIndex(t) -> DOMAIN indices[t] \cap DOMAIN local[t].data
      [] DeleteIndex(t) ->
           {f \in DOMAIN indices[t] :
              \E j \in 1..Len(local[t].deleted_docs) : f \in DOMAIN local[t].deleted_docs[j]}
      [] UpdateRead(t) /\ pc'[t] = "upd_open" ->
           {f \in DOMAIN indices[t] :
              \E j \in 1..Len(collFile) :
                 /\ HasAll(collFile[j], local'[t].query)
                 /\ ~PyEq(DictGet(collFile[j], f), DictGet(local'[t].documents[j], f))}
      [] CreateIndex(t) -> DOMAIN indices'[t] \ DOMAIN indices[t]
      [] Open(t) -> DOMAIN indices'[t]
      [] OTHER -> {}

C36_IndexFileIsMemory ==
    [][\A t \in Threads :
         ~server =>
            \A f \in CalledOn(t) :
               /\ f \in DOMAIN idxFile' \ idxCorrupt'
               /\ f \in DOMAIN indices'[t]
               /\ idxFile'[f] = indices'[t][f]
      ]_vars

(***************************************************************************)
(* C40.  The set of indexed fields survives a reopen: when the caller      *)
(* constructs a new handle in place of the one it has, the new handle has  *)
(* an index on exactly the fields the old one had, a field with a dot in   *)
(* its name included, and each index has the same contents.                *)
(***************************************************************************)
C40_IndicesSurviveReopen ==
    [][\A t \in Threads :
         (pc[t] = "idle" /\ Open(t)) =>
            /\ DOMAIN indices'[t] = DOMAIN indices[t]
            /\ \A f \in DOMAIN indices[t] \cap DOMAIN indices'[t] :
                 indices'[t][f] = indices[t][f]
      ]_vars

(***************************************************************************)
(* C37.  Independence of collections: an operation on the second           *)
(* collection (insert, update, delete, create_index, drop_index), in the   *)
(* same database or in another one, and whatever the first collection's    *)
(* caller is in the middle of, leaves the first collection as it is: its   *)
(* documents, its index files, the indices of its handles, and the set of  *)
(* fields a handle constructed on it has an index for.                     *)
(***************************************************************************)
OnOther == OtherInsert \/ OtherUpdate \/ OtherDelete \/ OtherCreateIndex \/ OtherDropIndex

C37_CollectionsIndependent ==
    [][OnOther =>
         /\ collFile' = collFile /\ collPartial' = collPartial
         /\ idxFile' = idxFile /\ idxCorrupt' = idxCorrupt
         /\ indices' = indices
         /\ load_indices' = load_indices
      ]_vars

====
